---- MODULE Spec2Model ----
(***************************************************************************)
(* A model of the ephemeral-message relay's decision-and-lifecycle         *)
(* pipeline: the forensic-resistant store and its sweeper, the policy      *)
(* engine, the key manager, the anomaly scorer, the metadata sanitizer and *)
(* the two submission routes.                                              *)
(*                                                                         *)
(* Every component has its own next-state relation and specification; all  *)
(* specifications start from the same Init (the state after the module     *)
(* level singletons are constructed).                                      *)
(***************************************************************************)
EXTENDS Integers, Sequences, FiniteSets, TLC

\* ------------------------------------------------------------------ bounds
\* The clock runs from 0 to MaxTime (whole seconds of time.time()).
MaxTime == 2
\* Requested lifetimes are 1..MaxTtl (the routes validate ttl_seconds > 0).
MaxTtl == 1

\* Number of decide_action calls in a behaviour (each appends to the audit log).
MaxCalls == 2
\* Number of key rotations in a behaviour.
MaxRotations == 2
\* Number of retrains the retrain loop begins in a behaviour.
MaxRetrains == 1
\* ML_MAX_BUFFER and ML_MIN_TRAIN_SAMPLES as configured for the model (the
\* defaults are 10000 and 200).
MAX_BUFFER == 2
MIN_TRAIN_SAMPLES == 2
\* Length at which _store_pattern starts dropping the oldest pattern (1000).
MaxPatterns == 2
\* Largest number of fields in a metadata map.
MaxFields == 2
\* POLICY_EXCEPTION_QUOTA and POLICY_EXCEPTION_WINDOW_SEC as configured for the
\* model (the defaults, 5 per 86400 s, scaled down to the model's clock).
EXCEPTION_QUOTA == 1
EXCEPTION_WINDOW_SEC == 1
\* Audit appends one run makes, and the rotation size in characters.
MaxAppends == 3
\* Passes of one force_secure_cleanup call through its loop.
MaxDeletions == 2
\* Admin operations one run executes.
MaxAdminOps == 2
\* Calls of force_retrain one run makes.
MaxForcedRetrains == 1
\* Vectors one run passes to add_observation.
MaxObservations == 3
AUDIT_LOG_MAX_SIZE == 18
\* The largest pass count a deployment configures (SECURE_DELETE_PASSES).
MaxPasses == 4
SECURE_DELETE_PASSES == 3
\* The number of rotated audit logs kept.
AUDIT_LOG_ROTATION_COUNT == 2

\* ------------------------------------------------------------- value sets
Tokens == {"alpha", "t1"}
Ciphertexts == {"hello", "world"}
\* Python's None (an absent entry, an absent result).
None == [absent |-> TRUE]

VARIABLES
  now,              \* time.time(), in whole seconds
  store,            \* ForensicResistantStorage._store: token -> entry | None
  deletion_queue,   \* ForensicResistantStorage._deletion_queue
  sw_pc,            \* position of _secure_cleanup_loop
  sw_tokens,        \* its local tokens_to_delete (the part not yet processed)
  sw_now,           \* its local now
  sw_expired,       \* its local expired_tokens (the part not yet queued)
  last_op,          \* the store operation that returned in the last step, and its result
  fc,               \* position and locals of the running force_secure_cleanup call
  hist,             \* per token: the last put, whether a delete followed it, and
                    \* whether a ciphertext of it was released without a wipe
  THRESH_ALLOW,     \* policy.THRESH_ALLOW
  THRESH_REAUTH,    \* policy.THRESH_REAUTH
  SHADOW_MODE,      \* policy.SHADOW_MODE
  CANARY_FRACTION,  \* policy.CANARY_FRACTION, in 1/256
  exception_events, \* policy._exception_events: quota key -> timestamps
  audit_log,        \* the lines of the policy audit log file
  pol,              \* per worker: position and locals of its decide_action call
  adm,              \* position and arguments of the running set_thresholds call
  calls,            \* number of decide_action calls started
  grants,           \* the block -> pending_approval downgrades decided so far
  req,              \* the submission a route handler is working on
  resp,             \* the last response a submission route sent, and what it did
  km,               \* KeyManager: _x25519_priv, _x25519_pub, key_id, _pqc_*
  km_lock,          \* KeyManager._lock: the thread that holds it, or "free"
  rot,              \* position of _rotate_loop and the number of rotations begun
  rd,               \* per reader: position and locals of export_public_keys
  bundles,          \* the key bundles the manager has completed so far
  hy,               \* the hybrid request in progress and what it has read of the keys
  ml,               \* ProductionMLAdapter: _buffer, _model, _scaler, _trained
  forcer,           \* position and locals of the running force_retrain call
  accepted,         \* the vectors add_observation has appended, in the order of the appends
  trainer,          \* position and locals of _periodic_retrain_loop
  persisted,        \* the state dumped at MODEL_PATH, or None
  last_score,       \* the score call that returned in the last step, or None
  memo,             \* per vector: what score returned for it since the last install
  san,              \* a metadata map, its sanitized form, and that form sanitized again
  _pattern_history, \* MetadataAnalyzer._pattern_history (its length)
  build,            \* a submission's metadata on its way to the feature vector
  audit_file,       \* the file at AUDIT_LOG_PATH: whether it exists, and its lines
  rotated,          \* the files at AUDIT_LOG_PATH.1, .2, ...
  _log_size,        \* ForensicResistantAudit._log_size
  audit_stats,      \* what the audit logger has been asked and has done
  integrity,        \* what verify_log_integrity returned in the last step
  ADMIN_API_KEY,    \* os.environ["ADMIN_API_KEY"]: its text and the credentials meant
  admin_req,        \* the last admin request and what its handler did
  admin_done,       \* the admin operations executed so far
  lock_owner,       \* per lock of a component: the thread inside it, or "free"
  lock_depth,       \* per lock: how many times its owner has entered it
  running,          \* per thread: the operation it executes and its next lock step
  wipe,             \* the running secure_deallocate call: its buffer and its passes
  shared            \* a stored entry, the get call that reads it and the
                    \* _secure_delete_entry call that deletes it

storeVars == <<store, deletion_queue, sw_pc, sw_tokens, sw_now,
               sw_expired, last_op, hist, fc>>

polVars == <<THRESH_ALLOW, THRESH_REAUTH, SHADOW_MODE, CANARY_FRACTION,
             exception_events, audit_log, pol, adm, calls, grants>>

sendVars == <<req, resp>>

kmVars == <<km, km_lock, rot, rd, bundles, hy>>

\* The services no submission passes state through.
mlVars == <<ml, trainer, persisted, last_score, memo, forcer, accepted>>

sanVars == <<san, _pattern_history, build>>

auditVars == <<audit_file, rotated, _log_size, audit_stats, integrity>>

authVars == <<ADMIN_API_KEY, admin_req, admin_done>>

lockVars == <<lock_owner, lock_depth, running>>

wipeVars == <<wipe, shared>>

restVars == <<kmVars, mlVars, sanVars, auditVars, authVars, lockVars, wipeVars>>

\* What the store's operations leave alone.
nonStoreVars == <<polVars, sendVars, restVars>>

\* What the policy engine leaves alone.
nonPolicyVars == <<storeVars, sendVars, restVars>>

\* What the key manager leaves alone.
nonKmVars == <<storeVars, polVars, sendVars, mlVars, sanVars, auditVars, authVars,
               lockVars, wipeVars>>

\* What the scorer leaves alone.
nonMlVars == <<storeVars, polVars, sendVars, kmVars, sanVars, auditVars, authVars,
               lockVars, wipeVars>>

\* What the sanitizer leaves alone.
nonSanVars == <<storeVars, polVars, sendVars, kmVars, mlVars, auditVars, authVars,
                lockVars, wipeVars>>

\* What the audit logger leaves alone.
nonAuditVars == <<storeVars, polVars, sendVars, kmVars, mlVars, sanVars, authVars,
                  lockVars, wipeVars>>

\* What admin authentication leaves alone.
nonAuthVars == <<storeVars, polVars, sendVars, kmVars, mlVars, sanVars, auditVars,
                 lockVars, wipeVars>>

\* What taking and leaving locks leaves alone.
nonLockVars == <<storeVars, polVars, sendVars, kmVars, mlVars, sanVars, auditVars,
                 authVars, wipeVars>>

\* What a secure deallocation leaves alone.
nonWipeVars == <<storeVars, polVars, sendVars, kmVars, mlVars, sanVars, auditVars,
                 authVars, lockVars>>

vars == <<now, storeVars, polVars, sendVars, restVars>>

\* last_op when the last step was not a store operation returning to a caller.
NoOp == [op |-> "none", token |-> "alpha", val |-> None]

\* ------------------------------------------------------------------ clock
StoreTick ==
  /\ now < MaxTime
  /\ now' = now + 1
  /\ last_op' = NoOp
  /\ UNCHANGED nonStoreVars
  /\ UNCHANGED <<fc, store, deletion_queue, sw_pc, sw_tokens, sw_now,
                 sw_expired, hist>>

\* ===================================================================
\* Ephemeral store (forensic_resistant_storage.py)
\* ===================================================================

\* An entry of _store holds ciphertext, expire_at and read.  Its created_at
\* and access_count (written, never read) and its forensic_id (a random tag
\* that only reaches log lines) take no part in any decision of the store and
\* are left out of the state.

\* _queue_secure_deletion: append unless already queued.
_queue_secure_deletion(q, token) ==
  IF \E i \in 1..Len(q) : q[i] = token THEN q ELSE Append(q, token)

\* _secure_delete_entry: pop the token from the map (the overwrite passes act
\* on the buffer of the popped entry, which the map no longer holds).
_secure_delete_entry(s, token) == [s EXCEPT ![token] = None]

\* The dict get() returns to its caller.
EntryView(e) ==
  [ciphertext |-> e.ciphertext, expire_at |-> e.expire_at, read |-> e.read]

\* put, on the store's own state
StorePut(token, ciphertext, ttl_seconds) ==
  /\ store' = [store EXCEPT ![token] =
                 [ciphertext |-> ciphertext,
                  expire_at |-> now + ttl_seconds,
                  read |-> FALSE]]
  /\ hist' = [hist EXCEPT ![token] =
                [put |-> [ciphertext |-> ciphertext, until |-> now + ttl_seconds],
                 deleted |-> FALSE,
                 \* the assignment drops the bytearray of the entry it replaces
                 unwiped |-> hist[token].unwiped \/ store[token] # None]]
  /\ last_op' = [op |-> "put", token |-> token, val |-> None]
  /\ fc' = [fc EXCEPT !.raced = fc.pc # "idle"]
  /\ UNCHANGED <<deletion_queue, sw_pc, sw_tokens, sw_now, sw_expired>>

put(token, ciphertext, ttl_seconds) ==
  /\ StorePut(token, ciphertext, ttl_seconds)
  /\ UNCHANGED nonStoreVars
  /\ UNCHANGED now

get(token) ==
  LET entry == store[token] IN
  /\ \/ /\ entry = None
        /\ last_op' = [op |-> "get", token |-> token, val |-> None]
        /\ UNCHANGED <<store, deletion_queue>>
     \/ /\ entry # None
        /\ now > entry.expire_at
        /\ deletion_queue' = _queue_secure_deletion(deletion_queue, token)
        /\ last_op' = [op |-> "get", token |-> token, val |-> None]
        /\ UNCHANGED store
     \/ /\ entry # None
        /\ ~(now > entry.expire_at)
        /\ last_op' = [op |-> "get", token |-> token,
                       val |-> EntryView(entry)]
        /\ UNCHANGED <<store, deletion_queue>>
  /\ UNCHANGED nonStoreVars
  /\ UNCHANGED <<now, fc, sw_pc, sw_tokens, sw_now, sw_expired, hist>>

mark_read_and_delete(token) ==
  /\ \/ /\ store[token] = None
        /\ last_op' = [op |-> "mark_read_and_delete", token |-> token,
                       val |-> [b |-> FALSE]]
        /\ UNCHANGED <<deletion_queue, hist>>
     \/ /\ store[token] # None
        /\ deletion_queue' = _queue_secure_deletion(deletion_queue, token)
        /\ last_op' = [op |-> "mark_read_and_delete", token |-> token,
                       val |-> [b |-> TRUE]]
        /\ hist' = [hist EXCEPT ![token].deleted = TRUE]
  /\ UNCHANGED nonStoreVars
  /\ UNCHANGED <<now, fc, store, sw_pc, sw_tokens, sw_now, sw_expired>>

\* int(max(0, expire_at - now)) on whole seconds.
Remaining(entry, t) == IF entry.expire_at - t > 0 THEN entry.expire_at - t ELSE 0

ttl_remaining(token) ==
  LET entry == store[token] IN
  /\ \/ /\ entry = None
        /\ last_op' = [op |-> "ttl_remaining", token |-> token,
                       val |-> None]
        /\ UNCHANGED deletion_queue
     \/ /\ entry # None
        /\ Remaining(entry, now) = 0
        /\ deletion_queue' = _queue_secure_deletion(deletion_queue, token)
        /\ last_op' = [op |-> "ttl_remaining", token |-> token,
                       val |-> None]
     \/ /\ entry # None
        /\ Remaining(entry, now) # 0
        /\ last_op' = [op |-> "ttl_remaining", token |-> token,
                       val |-> [n |-> Remaining(entry, now)]]
        /\ UNCHANGED deletion_queue
  /\ UNCHANGED nonStoreVars
  /\ UNCHANGED <<now, fc, store, sw_pc, sw_tokens, sw_now, sw_expired, hist>>

\* ---- _secure_cleanup_loop, one action per block of the loop body --------

\* with self._lock: tokens_to_delete = queue.copy(); queue.clear()
SweepDrain ==
  /\ last_op' = NoOp
  /\ sw_pc = "drain"
  /\ sw_tokens' = deletion_queue
  /\ deletion_queue' = <<>>
  /\ sw_pc' = "delete"
  /\ UNCHANGED nonStoreVars
  /\ UNCHANGED <<now, fc, store, sw_now, sw_expired, hist>>

\* for token in tokens_to_delete: self._secure_delete_entry(token)   (no lock)
SweepDelete ==
  /\ last_op' = NoOp
  /\ sw_pc = "delete"
  /\ sw_tokens # <<>>
  /\ store' = _secure_delete_entry(store, Head(sw_tokens))
  /\ sw_tokens' = Tail(sw_tokens)
  /\ UNCHANGED nonStoreVars
  /\ UNCHANGED <<now, fc, deletion_queue, sw_pc, sw_now, sw_expired, hist>>

\* now = time.time(); expired_tokens = []
SweepReadClock ==
  /\ last_op' = NoOp
  /\ sw_pc = "delete"
  /\ sw_tokens = <<>>
  /\ sw_now' = now
  /\ sw_pc' = "scan"
  /\ UNCHANGED nonStoreVars
  /\ UNCHANGED <<now, fc, store, deletion_queue, sw_tokens, sw_expired, hist>>

\* An expiry test that spares the entry whose time has just come.
ExpiredBefore(s, t) == {k \in Tokens : s[k] # None /\ s[k].expire_at < t}

\* if entry["expire_at"] <= now: expired_tokens.append(token)
ExpiredAt(s, t) == {k \in Tokens : s[k] # None /\ s[k].expire_at <= t}

\* with self._lock: collect the tokens whose expire_at <= now
SweepScan ==
  /\ last_op' = NoOp
  /\ sw_pc = "scan"
  /\ sw_expired' = ExpiredAt(store, sw_now)
  /\ sw_pc' = "queue"
  /\ sw_now' = 0
  /\ UNCHANGED nonStoreVars
  /\ UNCHANGED <<now, fc, store, deletion_queue, sw_tokens, hist>>

\* for token in expired_tokens: self._queue_secure_deletion(token)   (no lock)
SweepQueue ==
  /\ last_op' = NoOp
  /\ sw_pc = "queue"
  /\ \E t \in sw_expired :
       /\ deletion_queue' = _queue_secure_deletion(deletion_queue, t)
       /\ sw_expired' = sw_expired \ {t}
  /\ UNCHANGED nonStoreVars
  /\ UNCHANGED <<now, fc, store, sw_pc, sw_tokens, sw_now, hist>>

\* time.sleep(self._cleanup_interval), then the next iteration
SweepSleep ==
  /\ last_op' = NoOp
  /\ sw_pc = "queue"
  /\ sw_expired = {}
  /\ sw_pc' = "drain"
  /\ UNCHANGED nonStoreVars
  /\ UNCHANGED <<now, fc, store, deletion_queue, sw_tokens, sw_now,
                 sw_expired, hist>>

\* ---- force_secure_cleanup ------------------------------------------------
\* Its locals token and deleted_count; as history, the entries that were
\* present when it was called, how many entries its own _secure_delete_entry
\* calls popped from the map, and whether a put ran during the call.
IdleCleanup ==
  [pc |-> "idle", token |-> "alpha", deleted_count |-> 0, present |-> {},
   removed |-> 0, raced |-> FALSE]

Keys(s) == {t \in Tokens : s[t] # None}

\* for token in tokens: self._queue_secure_deletion(token)
RECURSIVE QueueAll(_, _)
QueueAll(q, tokens) ==
  IF tokens = <<>> THEN q
  ELSE QueueAll(_queue_secure_deletion(q, Head(tokens)), Tail(tokens))

\* The orders in which list(self._store.keys()) can give the keys.
KeyOrders(s) ==
  {o \in UNION {[1..n -> Keys(s)] : n \in 0..Cardinality(Tokens)} :
     /\ Len(o) = Cardinality(Keys(s))
     /\ \A i, j \in 1..Len(o) : i # j => o[i] # o[j]}

\* with self._lock: queue every key of the map
force_secure_cleanup_start ==
  /\ fc.pc = "idle"
  /\ \E tokens \in KeyOrders(store) :
       deletion_queue' = QueueAll(deletion_queue, tokens)
  /\ fc' = [IdleCleanup EXCEPT !.pc = "pop", !.present = Keys(store)]
  /\ last_op' = NoOp
  /\ UNCHANGED nonStoreVars
  /\ UNCHANGED <<now, store, sw_pc, sw_tokens, sw_now, sw_expired, hist>>

\* with self._lock: break on an empty queue, else token = queue.pop(0).
\* The break is followed only by the log line and the return.
force_secure_cleanup_pop ==
  /\ fc.pc = "pop"
  /\ deletion_queue # <<>> => fc.deleted_count < MaxDeletions
  /\ IF deletion_queue = <<>>
     THEN /\ last_op' = [op |-> "force_secure_cleanup", token |-> "alpha",
                         val |-> [n |-> fc.deleted_count,
                                  removed |-> fc.removed,
                                  present |-> fc.present,
                                  raced |-> fc.raced]]
          /\ fc' = IdleCleanup
          /\ UNCHANGED deletion_queue
     ELSE /\ fc' = [fc EXCEPT !.pc = "delete", !.token = Head(deletion_queue)]
          /\ deletion_queue' = Tail(deletion_queue)
          /\ last_op' = NoOp
  /\ UNCHANGED nonStoreVars
  /\ UNCHANGED <<now, store, sw_pc, sw_tokens, sw_now, sw_expired, hist>>

\* self._secure_delete_entry(token); deleted_count += 1   (no lock)
force_secure_cleanup_delete ==
  /\ fc.pc = "delete"
  /\ store' = _secure_delete_entry(store, fc.token)
  /\ fc' = [fc EXCEPT !.pc = "pop",
                      !.deleted_count = @ + 1,
                      !.removed = IF store[fc.token] # None THEN @ + 1 ELSE @]
  /\ last_op' = NoOp
  /\ UNCHANGED nonStoreVars
  /\ UNCHANGED <<now, deletion_queue, sw_pc, sw_tokens, sw_now,
                 sw_expired, hist>>

StoreInit ==
  /\ store = [t \in Tokens |-> None]
  /\ deletion_queue = <<>>
  /\ sw_pc = "drain"
  /\ sw_tokens = <<>>
  /\ sw_now = 0
  /\ sw_expired = {}
  /\ last_op = NoOp
  /\ hist = [t \in Tokens |-> [put |-> None, deleted |-> FALSE, unwiped |-> FALSE]]
  /\ fc = IdleCleanup

StoreNext ==
  \/ StoreTick
  \/ \E t \in Tokens, c \in Ciphertexts, ttl \in 1..MaxTtl : put(t, c, ttl)
  \/ \E t \in Tokens : get(t)
  \/ \E t \in Tokens : mark_read_and_delete(t)
  \/ \E t \in Tokens : ttl_remaining(t)
  \/ SweepDrain
  \/ SweepDelete
  \/ SweepReadClock
  \/ SweepScan
  \/ SweepQueue
  \/ SweepSleep

\* One step of the thread that runs _secure_cleanup_loop.
Sweeper ==
  \/ SweepDrain
  \/ SweepDelete
  \/ SweepReadClock
  \/ SweepScan
  \/ SweepQueue
  \/ SweepSleep

\* The store with its sweeper and callers that put and delete.
SweepNext ==
  \/ StoreTick
  \/ \E t \in Tokens, ttl \in 1..MaxTtl : put(t, "hello", ttl)
  \/ \E t \in Tokens : mark_read_and_delete(t)
  \/ Sweeper

\* The store under an operator who forces cleanups while callers put.
CleanupNext ==
  \/ StoreTick
  \/ \E t \in Tokens, ttl \in 1..MaxTtl : put(t, "hello", ttl)
  \/ SweepDrain
  \/ SweepDelete
  \/ SweepReadClock
  \/ SweepScan
  \/ SweepQueue
  \/ SweepSleep
  \/ force_secure_cleanup_start
  \/ force_secure_cleanup_pop
  \/ force_secure_cleanup_delete

\* ===================================================================
\* Policy engine (policy.py)
\* ===================================================================
Workers == {"w1", "w2"}
Risks == {10, 40, 70}
NoActor == "None"
\* send.py and crypto.py, the only callers, pass no actor
Actors == {NoActor}
QuotaKeys == Tokens \cup (Actors \ {NoActor})
\* POLICY_SHADOW_MODE and POLICY_CANARY_FRACTION (in 1/256) of a deployment
Deployments ==
  {[shadow |-> TRUE, canary |-> 256], [shadow |-> FALSE, canary |-> 128],
   [shadow |-> FALSE, canary |-> 256], [shadow |-> FALSE, canary |-> 0]}
\* set_thresholds arguments; an argument left out is None
ThresholdUpdates ==
  {[has_allow |-> TRUE, allow |-> 40, has_reauth |-> FALSE, reauth |-> 0],
   [has_allow |-> FALSE, allow |-> 0, has_reauth |-> TRUE, reauth |-> 70],
   [has_allow |-> TRUE, allow |-> 70, has_reauth |-> TRUE, reauth |-> 40]}

\* The leading byte of sha256(token), 0x8e for "alpha" and 0x62 for "t1": it
\* decides val < CANARY_FRACTION for fractions that are multiples of 1/256.
HashByte(token) == IF token = "alpha" THEN 142 ELSE 98

\* _opaque_id: the hex digest stands for its preimage and for nothing else.
_opaque_id(val) == [sha256 |-> val]

\* A worker that is not inside decide_action.
IdleCall ==
  [pc |-> "idle", call |-> 0, risk_score |-> 0, token |-> "alpha",
   exception_flag |-> FALSE, actor |-> NoActor, raw0 |-> "none",
   raw_action |-> "none", reason |-> "none", t_now |-> 0, enforce |-> FALSE,
   action |-> "none", policy |-> "none",
   \* history: when the call started, the thresholds it started under, whether
   \* they stayed as they were while it compared, what the ledger held when
   \* the quota was consulted
   \* and whether record_audit was entered and its write went through
   t0 |-> 0, a0 |-> 0, r0 |-> 0, cfg_stable |-> TRUE, in_window |-> 0,
   attempts |-> 0, written |-> FALSE,
   \* history: the raw actions that the threshold pairs which set_thresholds
   \* calls left or installed while the call compared give for its risk
   seen |-> {}]

RawFromAllowStrict(risk_score, allow) == risk_score > allow

\* lines 148-156, first comparison
RawFromAllow(risk_score, allow) == risk_score >= allow

\* lines 151-156, second comparison
RawFromReauth(risk_score, reauth) ==
  IF risk_score >= reauth THEN "require_reauth" ELSE "block"

\* The raw action of lines 147-156 under one pair of thresholds.
RawUnder(risk_score, cfg) ==
  IF risk_score >= cfg.a THEN "allow"
  ELSE IF risk_score >= cfg.r THEN "require_reauth" ELSE "block"

\* The pair of thresholds that a set_thresholds call with arguments u leaves.
Updated(u) ==
  [a |-> IF u.has_allow THEN u.allow ELSE THRESH_ALLOW,
   r |-> IF u.has_reauth THEN u.reauth ELSE THRESH_REAUTH]

\* The pairs in force now: the current one, or inside a set_thresholds call
\* the pair it found and the pair it leaves.
InForce ==
  IF adm.pc = "idle" THEN {[a |-> THRESH_ALLOW, r |-> THRESH_REAUTH]}
  ELSE {[a |-> IF adm.pc = "reauth" THEN adm.was_allow ELSE THRESH_ALLOW,
         r |-> THRESH_REAUTH],
        Updated(adm)}

\* The frame of a call that has just been entered.
EnteredCall(risk_score, token, exception_flag, actor) ==
  [IdleCall EXCEPT !.pc = "cmp_allow", !.call = calls + 1,
                   !.risk_score = risk_score, !.token = token,
                   !.exception_flag = exception_flag, !.actor = actor,
                   !.t0 = now, !.a0 = THRESH_ALLOW, !.r0 = THRESH_REAUTH,
                   !.seen = {RawUnder(risk_score, cfg) : cfg \in InForce}]

decide_start(w, risk_score, token, exception_flag, actor) ==
  /\ pol[w].pc = "idle"
  /\ calls < MaxCalls
  /\ calls' = calls + 1
  /\ pol' = [pol EXCEPT ![w] = EnteredCall(risk_score, token, exception_flag, actor)]
  /\ UNCHANGED <<now, nonPolicyVars, THRESH_ALLOW, THRESH_REAUTH, SHADOW_MODE,
                 CANARY_FRACTION, exception_events, audit_log, adm, grants>>

\* if risk_score >= THRESH_ALLOW
decide_cmp_allow(w) ==
  /\ pol[w].pc = "cmp_allow"
  /\ pol' = [pol EXCEPT ![w] =
       IF RawFromAllow(@.risk_score, THRESH_ALLOW)
         THEN [@ EXCEPT !.raw0 = "allow", !.raw_action = "allow",
                        !.reason = "risk >= allow_threshold", !.pc = "flag"]
         ELSE [@ EXCEPT !.pc = "cmp_reauth"]]
  /\ UNCHANGED <<now, nonPolicyVars, THRESH_ALLOW, THRESH_REAUTH, SHADOW_MODE,
                 CANARY_FRACTION, exception_events, audit_log, adm, calls, grants>>

\* elif risk_score >= THRESH_REAUTH ... else
decide_cmp_reauth(w) ==
  /\ pol[w].pc = "cmp_reauth"
  /\ pol' = [pol EXCEPT ![w] =
       LET r == RawFromReauth(@.risk_score, THRESH_REAUTH) IN
       [@ EXCEPT !.raw0 = r, !.raw_action = r,
                 !.reason = IF r = "block" THEN "risk < reauth_threshold (suspicious)"
                                           ELSE "risk in reauth range",
                 !.pc = "flag"]]
  /\ UNCHANGED <<now, nonPolicyVars, THRESH_ALLOW, THRESH_REAUTH, SHADOW_MODE,
                 CANARY_FRACTION, exception_events, audit_log, adm, calls, grants>>

\* if metadata_summary.get("exception_flag"): ... _within_exception_quota
\* starts by reading the clock (line 90), outside the ledger's lock.
decide_flag(w) ==
  /\ pol[w].pc = "flag"
  /\ pol' = [pol EXCEPT ![w] =
       IF @.exception_flag
         THEN [@ EXCEPT !.t_now = now, !.pc = "quota", !.seen = {}]
         ELSE [@ EXCEPT !.pc = "enforce", !.seen = {}]]
  /\ UNCHANGED <<now, nonPolicyVars, THRESH_ALLOW, THRESH_REAUTH, SHADOW_MODE,
                 CANARY_FRACTION, exception_events, audit_log, adm, calls, grants>>

\* quota_key = actor or token
QuotaKey(c) == IF c.actor # NoActor THEN c.actor ELSE c.token

PurgeWholeLedger(events, window_start) == <<>>

\* events = [ts for ts in events if ts >= window_start]
Purge(events, window_start) == SelectSeq(events, LAMBDA ts : ts >= window_start)

\* A quota check that grants without recording a timestamp.
QuotaWithoutRecord(events, t_now) ==
  LET kept == Purge(events, t_now - EXCEPTION_WINDOW_SEC) IN
  [events |-> kept, ok |-> Len(kept) < EXCEPTION_QUOTA]

\* _within_exception_quota, the block under _exception_lock: the ledger entry
\* it leaves and the boolean it returns.
_within_exception_quota(events, t_now) ==
  LET kept == Purge(events, t_now - EXCEPTION_WINDOW_SEC) IN
  IF Len(kept) >= EXCEPTION_QUOTA
    THEN [events |-> kept, ok |-> FALSE]
    ELSE [events |-> Append(kept, t_now), ok |-> TRUE]

\* lines 162-172: what the quota's answer does to the raw action
AfterQuota(c, ok) ==
  IF ok
    THEN IF c.raw_action = "block"
           THEN [c EXCEPT !.raw_action = "pending_approval",
                          !.reason = "exception requested by user; queued for admin review"]
           ELSE [c EXCEPT !.reason = "exception used; allowed but logged"]
    ELSE [c EXCEPT !.raw_action = "block", !.reason = "exception quota exceeded; blocked"]

\* Timestamps of a ledger entry that lie in the window ending at time t.
InWindow(events, t) ==
  Cardinality({i \in 1..Len(events) : events[i] >= t - EXCEPTION_WINDOW_SEC})

decide_quota(w) ==
  /\ pol[w].pc = "quota"
  /\ LET c == pol[w]
         key == QuotaKey(c)
         q == _within_exception_quota(exception_events[key], c.t_now)
         c2 == AfterQuota(c, q.ok)
     IN /\ exception_events' = [exception_events EXCEPT ![key] = q.events]
        /\ pol' = [pol EXCEPT ![w] =
             [c2 EXCEPT !.pc = "enforce",
                        !.in_window = InWindow(exception_events[key], now)]]
        /\ grants' = IF q.ok /\ c.raw_action = "block"
                       THEN Append(grants, [key |-> key, from |-> c.t0, to |-> now])
                       ELSE grants
  /\ UNCHANGED <<now, nonPolicyVars, THRESH_ALLOW, THRESH_REAUTH, SHADOW_MODE,
                 CANARY_FRACTION, audit_log, adm, calls>>

\* A canary whose outcome moves with the clock.
CanaryByClock(token) ==
  IF CANARY_FRACTION >= 256 THEN TRUE
  ELSE IF CANARY_FRACTION <= 0 THEN FALSE
  ELSE (HashByte(token) + 128 * now) % 256 < CANARY_FRACTION

\* _should_enforce_canary, with CANARY_FRACTION in 1/256
_should_enforce_canary(token) ==
  IF CANARY_FRACTION >= 256 THEN TRUE
  ELSE IF CANARY_FRACTION <= 0 THEN FALSE
  ELSE HashByte(token) < CANARY_FRACTION

EnforcementShadowOnly(c) ==
  [c EXCEPT !.enforce = ~SHADOW_MODE, !.policy = c.raw_action,
            !.action = IF SHADOW_MODE THEN "allow" ELSE c.raw_action]

\* lines 174-190: enforce, policy, action
Enforcement(c) ==
  LET enforce == IF SHADOW_MODE THEN FALSE ELSE _should_enforce_canary(c.token) IN
  [c EXCEPT !.enforce = enforce, !.policy = c.raw_action,
            !.action = IF ~enforce THEN "allow" ELSE c.raw_action]

\* lines 192-206: the event decide_action hands to record_audit
AuditEvent(c) ==
  [token_hash |-> _opaque_id(c.token), action |-> c.action, policy |-> c.policy,
   risk |-> c.risk_score, reason |-> c.reason,
   metadata_summary |-> [exception_flag |-> c.exception_flag]]

allowed_keys ==
  {"ts", "token_hash", "action", "risk", "policy", "reason", "client_ip_hash",
   "metadata_summary", "actor", "admin_action", "note"}

\* record_audit, lines 73-80: the line that is written
AuditLine(event, t) ==
  LET keys == (DOMAIN event \cup {"ts"}) \cap allowed_keys IN
  [k \in keys |-> IF k \in DOMAIN event THEN event[k] ELSE t]

record_audit_twice(log, call, event, t, written) ==
  IF written
    THEN Append(Append(log, [call |-> call, line |-> AuditLine(event, t)]),
                [call |-> call, line |-> AuditLine(event, t)])
    ELSE log

\* record_audit, lines 81-86: the append, or the swallowed failure of open/write
record_audit(log, call, event, t, written) ==
  IF written THEN Append(log, [call |-> call, line |-> AuditLine(event, t)])
             ELSE log

\* lines 174-212: enforcement, the event, record_audit
decide_audit(w) ==
  /\ pol[w].pc = "enforce"
  /\ LET c == Enforcement(pol[w]) IN
       \E written \in BOOLEAN :
         /\ audit_log' = record_audit(audit_log, c.call, AuditEvent(c), now, written)
         /\ pol' = [pol EXCEPT ![w] =
              [c EXCEPT !.pc = "ret", !.attempts = @ + 1, !.written = written]]
  /\ UNCHANGED <<now, nonPolicyVars, THRESH_ALLOW, THRESH_REAUTH, SHADOW_MODE,
                 CANARY_FRACTION, exception_events, adm, calls, grants>>

\* return {...}
decide_return(w) ==
  /\ pol[w].pc = "ret"
  /\ pol' = [pol EXCEPT ![w] = IdleCall]
  /\ UNCHANGED <<now, nonPolicyVars, THRESH_ALLOW, THRESH_REAUTH, SHADOW_MODE,
                 CANARY_FRACTION, exception_events, audit_log, adm, calls, grants>>

\* ---- set_thresholds(allow, reauth), under _threshold_lock ----------------
\* was_allow is history: THRESH_ALLOW as the call found it.
IdleAdmin == [pc |-> "idle", has_allow |-> FALSE, allow |-> 0,
              has_reauth |-> FALSE, reauth |-> 0, was_allow |-> 0]

\* A threshold that changes under a call that is still comparing.
Unsettle(p, changed) ==
  [w \in Workers |->
     IF changed /\ p[w].pc \in {"cmp_allow", "cmp_reauth"}
       THEN [p[w] EXCEPT !.cfg_stable = FALSE] ELSE p[w]]

\* A call that is comparing when set_thresholds(u) begins overlaps it.
Overlapped(p, u) ==
  [w \in Workers |->
     IF p[w].pc \in {"cmp_allow", "cmp_reauth"}
       THEN [p[w] EXCEPT !.seen = @ \cup {RawUnder(p[w].risk_score, Updated(u))}]
       ELSE p[w]]

set_thresholds_start(u) ==
  /\ adm.pc = "idle"
  /\ adm' = [pc |-> "allow", has_allow |-> u.has_allow, allow |-> u.allow,
             has_reauth |-> u.has_reauth, reauth |-> u.reauth, was_allow |-> 0]
  /\ pol' = Overlapped(pol, u)
  /\ UNCHANGED <<now, nonPolicyVars, THRESH_ALLOW, THRESH_REAUTH, SHADOW_MODE,
                 CANARY_FRACTION, exception_events, audit_log, calls, grants>>

\* if allow is not None: THRESH_ALLOW = int(allow)
set_thresholds_allow ==
  /\ adm.pc = "allow"
  /\ THRESH_ALLOW' = IF adm.has_allow THEN adm.allow ELSE THRESH_ALLOW
  /\ pol' = Unsettle(pol, THRESH_ALLOW' # THRESH_ALLOW)
  /\ adm' = [adm EXCEPT !.pc = "reauth", !.has_allow = FALSE, !.allow = 0,
                        !.was_allow = THRESH_ALLOW]
  /\ UNCHANGED <<now, nonPolicyVars, THRESH_REAUTH, SHADOW_MODE, CANARY_FRACTION,
                 exception_events, audit_log, calls, grants>>

\* if reauth is not None: THRESH_REAUTH = int(reauth)
set_thresholds_reauth ==
  /\ adm.pc = "reauth"
  /\ THRESH_REAUTH' = IF adm.has_reauth THEN adm.reauth ELSE THRESH_REAUTH
  /\ pol' = Unsettle(pol, THRESH_REAUTH' # THRESH_REAUTH)
  /\ adm' = IdleAdmin
  /\ UNCHANGED <<now, nonPolicyVars, THRESH_ALLOW, SHADOW_MODE, CANARY_FRACTION,
                 exception_events, audit_log, calls, grants>>

PolicyTick ==
  /\ now < MaxTime
  /\ now' = now + 1
  /\ UNCHANGED <<nonPolicyVars, polVars>>

\* The module's state after import with the environment unset.
PolicyInit ==
  /\ THRESH_ALLOW = 70
  /\ THRESH_REAUTH = 40
  /\ SHADOW_MODE = FALSE
  /\ CANARY_FRACTION = 256
  /\ exception_events = [k \in QuotaKeys |-> <<>>]
  /\ audit_log = <<>>
  /\ pol = [w \in Workers |-> IdleCall]
  /\ adm = IdleAdmin
  /\ calls = 0
  /\ grants = <<>>

\* The same with POLICY_SHADOW_MODE and POLICY_CANARY_FRACTION set.
PolicyInitAny ==
  /\ THRESH_ALLOW = 70
  /\ THRESH_REAUTH = 40
  /\ \E d \in Deployments :
       /\ SHADOW_MODE = d.shadow
       /\ CANARY_FRACTION = d.canary
  /\ exception_events = [k \in QuotaKeys |-> <<>>]
  /\ audit_log = <<>>
  /\ pol = [w \in Workers |-> IdleCall]
  /\ adm = IdleAdmin
  /\ calls = 0
  /\ grants = <<>>

PolicyNext ==
  \/ PolicyTick
  \/ \E w \in Workers, r \in Risks, t \in Tokens, f \in BOOLEAN, a \in Actors :
       decide_start(w, r, t, f, a)
  \/ \E w \in Workers : decide_cmp_allow(w)
  \/ \E w \in Workers : decide_cmp_reauth(w)
  \/ \E w \in Workers : decide_flag(w)
  \/ \E w \in Workers : decide_quota(w)
  \/ \E w \in Workers : decide_audit(w)
  \/ \E w \in Workers : decide_return(w)

\* One request worker and the administrator who moves the thresholds under it.
ThresholdNext ==
  \/ \E r \in Risks, t \in Tokens, f \in BOOLEAN, a \in Actors :
       decide_start("w1", r, t, f, a)
  \/ decide_cmp_allow("w1")
  \/ decide_cmp_reauth("w1")
  \/ decide_flag("w1")
  \/ decide_quota("w1")
  \/ decide_audit("w1")
  \/ decide_return("w1")
  \/ \E u \in ThresholdUpdates : set_thresholds_start(u)
  \/ set_thresholds_allow
  \/ set_thresholds_reauth

\* ===================================================================
\* Submission routes (routes/send.py, routes/crypto.py)
\* ===================================================================
Routes == {"send", "crypto"}
\* The worker thread that runs the route handler.
Handler == "w1"

IdleRequest == [pc |-> "idle", route |-> "send", ciphertext |-> "hello", ttl |-> 1]
NoResponse == [call |-> 0, route |-> "send", status |-> "none", put |-> FALSE,
               action |-> "none", policy |-> "none", enforced |-> FALSE]

\* The handler up to and including its call of decide_action. The risk is
\* what scoring and the leak adjustment produced, exception_flag what the
\* sanitized metadata carried; no actor is passed.
submit(route, token, ciphertext, ttl, risk, exception_flag) ==
  /\ req.pc = "idle"
  /\ pol[Handler].pc = "idle"
  /\ calls < MaxCalls
  /\ calls' = calls + 1
  /\ pol' = [pol EXCEPT ![Handler] = EnteredCall(risk, token, exception_flag, NoActor)]
  /\ req' = [pc |-> "deciding", route |-> route, ciphertext |-> ciphertext, ttl |-> ttl]
  /\ UNCHANGED <<now, storeVars, restVars, THRESH_ALLOW, THRESH_REAUTH, SHADOW_MODE,
                 CANARY_FRACTION, exception_events, audit_log, adm, grants, resp>>

\* post_send, lines 130-180: the status answered and whether store.put runs
post_send_outcome(d) ==
  IF ~d.enforce THEN [status |-> "stored", put |-> TRUE]
  ELSE IF d.action = "block" THEN [status |-> "blocked", put |-> FALSE]
  ELSE IF d.action = "require_reauth" THEN [status |-> "require_reauth", put |-> FALSE]
  ELSE IF d.action = "pending_approval" THEN [status |-> "pending_approval", put |-> FALSE]
  ELSE [status |-> "stored", put |-> TRUE]

\* crypto_hybrid_send, lines 361-429
crypto_hybrid_send_outcome(d) ==
  IF ~d.enforce THEN [status |-> "stored", put |-> FALSE]
  ELSE IF d.action = "block" THEN [status |-> "blocked", put |-> FALSE]
  ELSE IF d.action = "require_reauth" THEN [status |-> "require_reauth", put |-> FALSE]
  ELSE IF d.action = "pending_approval" THEN [status |-> "pending_approval", put |-> FALSE]
  ELSE [status |-> "stored", put |-> TRUE]

\* decide_action returns; the handler acts on the decision and responds.
respond ==
  /\ req.pc = "deciding"
  /\ pol[Handler].pc = "ret"
  /\ LET d == pol[Handler]
         o == IF req.route = "send" THEN post_send_outcome(d)
                                    ELSE crypto_hybrid_send_outcome(d)
     IN /\ \/ /\ o.put
              /\ StorePut(d.token, req.ciphertext, req.ttl)
              /\ resp' = [call |-> d.call, route |-> req.route, status |-> o.status,
                          put |-> TRUE, action |-> d.action, policy |-> d.policy,
                          enforced |-> d.enforce]
           \/ /\ ~o.put
              /\ UNCHANGED storeVars
              /\ resp' = [call |-> d.call, route |-> req.route, status |-> o.status,
                          put |-> FALSE, action |-> d.action, policy |-> d.policy,
                          enforced |-> d.enforce]
  /\ pol' = [pol EXCEPT ![Handler] = IdleCall]
  /\ req' = IdleRequest
  /\ UNCHANGED <<now, restVars, THRESH_ALLOW, THRESH_REAUTH, SHADOW_MODE,
                 CANARY_FRACTION, exception_events, audit_log, adm, calls, grants>>

SendInit ==
  /\ req = IdleRequest
  /\ resp = NoResponse

SendNext ==
  \/ PolicyTick
  \/ \E route \in Routes, t \in Tokens, c \in Ciphertexts, ttl \in 1..MaxTtl,
        r \in Risks, f \in BOOLEAN :
       submit(route, t, c, ttl, r, f)
  \/ decide_cmp_allow(Handler)
  \/ decide_cmp_reauth(Handler)
  \/ decide_flag(Handler)
  \/ decide_quota(Handler)
  \/ decide_audit(Handler)
  \/ respond

\* ===================================================================
\* Key manager (key_manager.py)
\* ===================================================================
Readers == {"r1", "r2"}

\* X25519PrivateKey.generate() and kem.generate_keypair(): the n-th fresh key
FreshPriv(n) == [x25519 |-> n]
FreshKem(n) == [kem |-> n]
\* X25519PrivateKey.public_key()
public_key(priv) == [public_of |-> priv]
\* base64 of the raw key bytes
_b64(x) == [b64 |-> x]
\* f"server_x25519_{int(time.time())}"
KeyId(t) == [server_x25519 |-> t]

\* The bundle the manager's fields describe.
Bundle(k) == [key_id |-> k.key_id, x25519_pub |-> k.x25519_pub, pqc_pub |-> k.pqc_pub]

\* with self._lock: the lock can be taken
LockFreeAlways == TRUE

LockFree == km_lock = "free"

IdleReader == [pc |-> "idle", x25519_pub_b64 |-> None, pqc_pub_b64 |-> None,
               snapshot |-> None]

\* ---- _rotate_loop: sleep, then the four assignments under the lock -------
\* while not self._shutdown: the loop goes on to its sleep, or the thread ends
rotate_test ==
  /\ rot.pc = "test"
  /\ rot' = [rot EXCEPT !.pc = IF km._shutdown THEN "exited" ELSE "sleep"]
  /\ UNCHANGED <<now, nonKmVars, hy, km, km_lock, rd, bundles>>

\* time.sleep(self.rotate_interval) is over; with self._lock
rotate_acquire ==
  /\ rot.pc = "sleep"
  /\ rot.n < MaxRotations
  /\ LockFree
  /\ km_lock' = "rotator"
  /\ rot' = [pc |-> "priv", n |-> rot.n + 1]
  /\ UNCHANGED <<now, nonKmVars, hy, km, rd, bundles>>

\* self._x25519_priv = X25519PrivateKey.generate()
rotate_priv ==
  /\ rot.pc = "priv"
  /\ km' = [km EXCEPT !.x25519_priv = FreshPriv(rot.n)]
  /\ rot' = [rot EXCEPT !.pc = "pub"]
  /\ UNCHANGED <<now, nonKmVars, hy, km_lock, rd, bundles>>

\* self._x25519_pub = self._x25519_priv.public_key()
rotate_pub ==
  /\ rot.pc = "pub"
  /\ km' = [km EXCEPT !.x25519_pub = public_key(km.x25519_priv)]
  /\ rot' = [rot EXCEPT !.pc = "key_id"]
  /\ UNCHANGED <<now, nonKmVars, hy, km_lock, rd, bundles>>

\* self.key_id = f"server_x25519_{int(time.time())}"
rotate_key_id ==
  /\ rot.pc = "key_id"
  /\ km' = [km EXCEPT !.key_id = KeyId(now)]
  /\ rot' = [rot EXCEPT !.pc = "pqc"]
  /\ UNCHANGED <<now, nonKmVars, hy, km_lock, rd, bundles>>

\* _init_pqc: a fresh KEM key pair, or all three PQC fields None on failure
_init_pqc(k, n, ok) ==
  IF ok THEN [k EXCEPT !.pqc_priv = FreshKem(n), !.pqc_pub = public_key(FreshKem(n)),
                       !.pqc_kem_name = [name |-> "Kyber512"]]
        ELSE [k EXCEPT !.pqc_priv = None, !.pqc_pub = None, !.pqc_kem_name = None]

rotate_pqc ==
  /\ rot.pc = "pqc"
  /\ \E ok \in BOOLEAN : km' = _init_pqc(km, rot.n, ok)
  /\ rot' = [rot EXCEPT !.pc = "release"]
  /\ UNCHANGED <<now, nonKmVars, hy, km_lock, rd, bundles>>

\* leaving the with block, back to the loop's test
rotate_release ==
  /\ rot.pc = "release"
  /\ km_lock' = "free"
  /\ bundles' = bundles \cup {Bundle(km)}
  /\ rot' = [rot EXCEPT !.pc = "test"]
  /\ UNCHANGED <<now, nonKmVars, hy, km, rd>>

\* ---- export_public_keys ---------------------------------------------------
export_acquire(r) ==
  /\ rd[r].pc = "idle"
  /\ LockFree
  /\ km_lock' = r
  /\ rd' = [rd EXCEPT ![r] = [IdleReader EXCEPT !.pc = "classical"]]
  /\ UNCHANGED <<now, nonKmVars, hy, km, rot, bundles>>

\* x25519_pub_b64 = b64encode(self._x25519_pub.public_bytes(Raw, Raw))
export_classical(r) ==
  /\ rd[r].pc = "classical"
  /\ rd' = [rd EXCEPT ![r].x25519_pub_b64 = _b64(km.x25519_pub), ![r].pc = "pqc"]
  /\ UNCHANGED <<now, nonKmVars, hy, km, km_lock, rot, bundles>>

\* pqc_pub_b64 = b64encode(self._pqc_pub) if it is not None
export_pqc(r) ==
  /\ rd[r].pc = "pqc"
  /\ rd' = [rd EXCEPT ![r].pqc_pub_b64 =
                        IF km.pqc_pub # None THEN _b64(km.pqc_pub) ELSE None,
                      ![r].pc = "return"]
  /\ UNCHANGED <<now, nonKmVars, hy, km, km_lock, rot, bundles>>

\* return {"key_id": self.key_id, ...}, leaving the with block
export_return(r) ==
  /\ rd[r].pc = "return"
  /\ rd' = [rd EXCEPT ![r] =
       [IdleReader EXCEPT !.snapshot =
          [key_id |-> km.key_id, x25519_pub_b64 |-> rd[r].x25519_pub_b64,
           pqc_pub_b64 |-> rd[r].pqc_pub_b64, pqc_enabled |-> km.pqc_pub # None,
           pqc_kem |-> km.pqc_kem_name]]]
  /\ km_lock' = "free"
  /\ UNCHANGED <<now, nonKmVars, hy, km, rot, bundles>>

\* ---- the hybrid routes (routes/crypto.py) ----------------------------------
HybridRoutes == {"hybrid_init", "send"}

IdleHybrid == [pc |-> "idle", route |-> "hybrid_init", priv |-> None,
               aad_key_id |-> None, resp_pub |-> None, resp_key_id |-> None]

\* _KM.derive_shared_secret_server_side(...): under the manager's lock,
\* self._x25519_priv.exchange(client_pub)
derive_shared_secret_server_side(route) ==
  /\ hy.pc \in {"idle", "done"}
  /\ LockFree
  /\ hy' = [IdleHybrid EXCEPT !.pc = IF route = "send" THEN "aad" ELSE "export",
                              !.route = route, !.priv = km.x25519_priv]
  /\ UNCHANGED <<now, nonKmVars, km, km_lock, rot, rd, bundles>>

\* crypto_hybrid_init: server_keys = _KM.export_public_keys(), under the lock
crypto_hybrid_init_export ==
  /\ hy.pc = "export"
  /\ LockFree
  /\ hy' = [hy EXCEPT !.pc = "key_id", !.resp_pub = _b64(km.x25519_pub)]
  /\ UNCHANGED <<now, nonKmVars, km, km_lock, rot, rd, bundles>>

\* crypto_hybrid_init: resp = {"key_id": _KM.key_id, ...}, a read of the
\* attribute that takes no lock
crypto_hybrid_init_respond ==
  /\ hy.pc = "key_id"
  /\ hy' = [hy EXCEPT !.pc = "done", !.resp_key_id = km.key_id]
  /\ UNCHANGED <<now, nonKmVars, km, km_lock, rot, rd, bundles>>

\* crypto_hybrid_send: assoc_parts = [body.token, str(_KM.key_id), ...]
crypto_hybrid_send_aad ==
  /\ hy.pc = "aad"
  /\ hy' = [hy EXCEPT !.pc = "respond", !.aad_key_id = km.key_id]
  /\ UNCHANGED <<now, nonKmVars, km, km_lock, rot, rd, bundles>>

\* crypto_hybrid_send: HybridSendResponse(..., key_id=_KM.key_id, ...) after
\* leak detection, sanitizing, scoring and the policy decision
crypto_hybrid_send_respond ==
  /\ hy.pc = "respond"
  /\ hy' = [hy EXCEPT !.pc = "done", !.resp_key_id = km.key_id]
  /\ UNCHANGED <<now, nonKmVars, km, km_lock, rot, rd, bundles>>

\* shutdown: self._shutdown = True; the join gives up after a second
shutdown ==
  /\ km' = [km EXCEPT !._shutdown = TRUE]
  /\ UNCHANGED <<now, nonKmVars, hy, km_lock, rot, rd, bundles>>

KmTick ==
  /\ now < MaxTime
  /\ now' = now + 1
  /\ UNCHANGED <<nonKmVars, kmVars>>

\* KeyManager.__init__, with the KEM key pair generated
KmInit ==
  /\ km = _init_pqc([x25519_priv |-> FreshPriv(0),
                     x25519_pub |-> public_key(FreshPriv(0)),
                     key_id |-> KeyId(0), pqc_priv |-> None, pqc_pub |-> None,
                     pqc_kem_name |-> None, _shutdown |-> FALSE], 0, TRUE)
  /\ km_lock = "free"
  /\ rot = [pc |-> "test", n |-> 0]
  /\ rd = [r \in Readers |-> IdleReader]
  /\ hy = IdleHybrid
  /\ bundles = {[key_id |-> KeyId(0), x25519_pub |-> public_key(FreshPriv(0)),
                 pqc_pub |-> public_key(FreshKem(0))]}

KmNext ==
  \/ KmTick
  \/ rotate_test
  \/ rotate_acquire
  \/ rotate_priv
  \/ rotate_pub
  \/ rotate_key_id
  \/ rotate_pqc
  \/ rotate_release
  \/ \E r \in Readers : export_acquire(r)
  \/ \E r \in Readers : export_classical(r)
  \/ \E r \in Readers : export_pqc(r)
  \/ \E r \in Readers : export_return(r)

\* The rotation loop and the readers in a process that is shut down.
ShutdownNext ==
  \/ KmTick
  \/ rotate_test
  \/ rotate_acquire
  \/ rotate_priv
  \/ rotate_pub
  \/ rotate_key_id
  \/ rotate_pqc
  \/ rotate_release
  \/ \E r \in Readers : export_acquire(r)
  \/ \E r \in Readers : export_classical(r)
  \/ \E r \in Readers : export_pqc(r)
  \/ \E r \in Readers : export_return(r)
  \/ shutdown

\* The rotation loop beside one hybrid request at a time.
HybridNext ==
  \/ KmTick
  \/ rotate_test
  \/ rotate_acquire
  \/ rotate_priv
  \/ rotate_pub
  \/ rotate_key_id
  \/ rotate_pqc
  \/ rotate_release
  \/ \E route \in HybridRoutes : derive_shared_secret_server_side(route)
  \/ crypto_hybrid_init_export
  \/ crypto_hybrid_init_respond
  \/ crypto_hybrid_send_aad
  \/ crypto_hybrid_send_respond

\* ===================================================================
\* Anomaly scorer (ml_adapter.py)
\* ===================================================================
\* Vectors as callers pass them: whether every component converts with
\* float(), and the components [padded_size, interval, dest_count, device].
Quiet == [numeric |-> TRUE, x |-> <<1024, 10, 1, 0>>]
Burst == [numeric |-> TRUE, x |-> <<60000, 0, 10, 1>>]
Empty == [numeric |-> TRUE, x |-> <<>>]
NotNumbers == [numeric |-> FALSE, x |-> <<>>]
Vectors == {Quiet, Burst, Empty, NotNumbers}

\* float("inf"), which float() returns for "inf", "Infinity" and 1e999: it
\* compares above every other value.
inf == 1000000

\* A vector of the nominal arity with an infinite interval.
Unbounded == [numeric |-> TRUE, x |-> <<1024, inf, 1, 0>>]

\* The vectors callers pass to add_observation.
Observations == Vectors \cup {Unbounded}

\* math.isfinite, component by component
Finite(x) == \A i \in 1..Len(x) : x[i] # inf

\* The arity D of an observation vector (padded_size, interval, dest_count,
\* device_change_flag).
D == 4

\* What IsolationForest.decision_function does with a vector: raise, or
\* return df (in hundredths).
Raises == [raises |-> TRUE, df |-> 0]
Df(d) == [raises |-> FALSE, df |-> d]

\* The decision functions a fit may produce, on the vectors of arity 4.
Fits ==
  {[v \in {Quiet, Burst} |-> IF v = Quiet THEN Df(101) ELSE Df(-150)],
   [v \in {Quiet, Burst} |-> IF v = Quiet THEN Raises ELSE Df(-33)]}

\* decision_function(vec): a vector of another arity than the training data raises
decision_function(model, v) ==
  IF v \in DOMAIN model.df THEN model.df[v] ELSE Raises

ScaledNoClamp(d) == (100 + d) \div 2

\* int(max(0, min(100, 50 + df * 50))), df in hundredths
Scaled(d) ==
  LET halves == 100 + d
      clamped == IF halves > 200 THEN 200 ELSE IF halves < 0 THEN 0 ELSE halves
  IN clamped \div 2

\* vector[i] if len(vector) > i else the default
Component(x, i, default) == IF Len(x) >= i THEN x[i] ELSE default

_heuristic_score(x) ==
  LET padded_size == Component(x, 1, 0)
      interval == Component(x, 2, 0)
      dest_count == Component(x, 3, 1)
      device_change == Component(x, 4, 0)
      s1 == 70 - (IF padded_size > 50 * 1024 THEN 35
                  ELSE IF padded_size > 10 * 1024 THEN 20
                  ELSE IF padded_size > 2 * 1024 THEN 10 ELSE 0)
      s2 == s1 - (IF interval < 1 THEN 30 ELSE IF interval < 5 THEN 10 ELSE 0)
      s3 == s2 - (IF dest_count >= 10 THEN 30 ELSE IF dest_count >= 3 THEN 12 ELSE 0)
      s4 == s3 - (IF device_change # 0 THEN 30 ELSE 0)
  IN IF s4 > 100 THEN 100 ELSE IF s4 < 0 THEN 0 ELSE s4

\* score, lines 163-197: the value returned in adapter state m
ScoreOf(m, v) ==
  IF ~v.numeric THEN 0
  ELSE IF ~m._trained \/ m._model = None THEN _heuristic_score(v.x)
  ELSE LET o == decision_function(m._model, v) IN
       IF o.raises THEN _heuristic_score(v.x) ELSE Scaled(o.df)

score(v) ==
  /\ last_score' = [vector |-> v, result |-> ScoreOf(ml, v)]
  /\ memo' = [memo EXCEPT ![v] = [n |-> ScoreOf(ml, v)]]
  /\ UNCHANGED <<now, nonMlVars, accepted, ml, trainer, persisted, forcer>>

\* add_observation: a vector that does not convert is skipped; the buffer
\* drops its oldest vector beyond MAX_BUFFER
\* A buffer over capacity loses its newest vector.
CappedAtTail(b) == IF Len(b) > MAX_BUFFER THEN SubSeq(b, 1, Len(b) - 1) ELSE b

\* if len(self._buffer) > self._max_buffer: self._buffer.pop(0)
Capped(b) == IF Len(b) > MAX_BUFFER THEN Tail(b) ELSE b

add_observation(v) ==
  /\ Len(accepted) < MaxObservations
  /\ ml' = IF ~v.numeric THEN ml
           ELSE [ml EXCEPT !._buffer = Capped(Append(ml._buffer, v))]
  /\ accepted' = IF ~v.numeric THEN accepted ELSE Append(accepted, v)
  /\ last_score' = None
  /\ UNCHANGED <<now, nonMlVars, trainer, persisted, memo, forcer>>

\* np.array(buffer, dtype=float) and the fit need rows of one positive arity;
\* StandardScaler.fit_transform raises ValueError on an infinite or NaN input
Trainable(X) ==
  /\ \A i \in 1..Len(X) : Len(X[i].x) = Len(X[1].x)
  /\ Len(X[1].x) > 0
  /\ \A i \in 1..Len(X) : Finite(X[i].x)

\* A threshold of one sample whatever MIN_TRAIN_SAMPLES is.
EnoughIfAny(buffer) == Len(buffer) >= 1

\* not (len(self._buffer) < self._min_samples)
Enough(buffer) == ~(Len(buffer) < MIN_TRAIN_SAMPLES)

\* _prepare_training_data: None below MIN_TRAIN_SAMPLES, else a copy of the
\* buffer as an array; np.array raises on rows that make no matrix.
_prepare_training_data(buffer) ==
  IF ~Enough(buffer) THEN None
  ELSE IF ~Trainable(buffer) THEN [raised |-> "ValueError"]
  ELSE [X |-> buffer]

\* An install that leaves the scaler of the previous retrain in place.
InstalledModelOnly(m, n, df) ==
  [m EXCEPT !._model = [fit |-> n, df |-> df], !._trained = TRUE]

\* with self._lock: self._model = model; self._scaler = scaler;
\* self._trained = True. n names the retrain that fitted both.
Installed(m, n, df) ==
  [m EXCEPT !._model = [fit |-> n, df |-> df],
            !._scaler = [fit |-> n],
            !._trained = TRUE]

\* _periodic_retrain_loop: prepare; on None or an exception, the next round
retrain_prepare ==
  /\ trainer.pc = "sleep"
  /\ trainer.n < MaxRetrains
  /\ LET prepared == _prepare_training_data(ml._buffer) IN
     trainer' = IF "X" \in DOMAIN prepared
                  THEN [pc |-> "fit", n |-> trainer.n + 1, X |-> prepared.X,
                        held |-> None]
                  ELSE [trainer EXCEPT !.n = @ + 1]
  /\ last_score' = None
  /\ UNCHANGED <<now, nonMlVars, accepted, ml, persisted, memo, forcer>>

\* _train_model: the fit, then model, scaler and flag installed under the lock
retrain_install ==
  /\ trainer.pc = "fit"
  /\ \E df \in Fits : ml' = Installed(ml, trainer.n, df)
  /\ trainer' = [trainer EXCEPT !.pc = "persist", !.X = <<>>]
  /\ memo' = [v \in Vectors |-> None]
  /\ last_score' = None
  /\ UNCHANGED <<now, nonMlVars, accepted, persisted, forcer>>

\* _persist_model, line 141: state = {"model": self._model, "scaler":
\* self._scaler} reads the two attributes one after the other, without the
\* lock. This step is the first read.
retrain_persist_model ==
  /\ trainer.pc = "persist"
  /\ trainer' = [trainer EXCEPT !.pc = "dump", !.held = ml._model]
  /\ last_score' = None
  /\ UNCHANGED <<now, nonMlVars, accepted, ml, persisted, memo, forcer>>

\* _persist_model: the second read and joblib.dump, failure swallowed
retrain_persist ==
  /\ trainer.pc = "dump"
  /\ \/ persisted' = [model |-> trainer.held, scaler |-> ml._scaler]
     \/ persisted' = persisted
  /\ trainer' = [trainer EXCEPT !.pc = "sleep", !.held = None]
  /\ last_score' = None
  /\ UNCHANGED <<now, nonMlVars, accepted, ml, memo, forcer>>

\* ---- force_retrain, the admin-triggered retrain ---------------------------
\* have is the buffer length its warning reports.
IdleForcer ==
  [pc |-> "idle", n |-> 0, X |-> <<>>, out |-> None, have |-> 0, held |-> None]

\* prepared = self._prepare_training_data(); if not prepared: return False.
\* The call is outside the try: what np.array raises leaves force_retrain.
force_retrain_prepare ==
  /\ forcer.pc = "idle"
  /\ forcer.n < MaxForcedRetrains
  /\ LET prepared == _prepare_training_data(ml._buffer) IN
     forcer' = IF prepared = None
                 THEN [forcer EXCEPT !.n = @ + 1, !.out = [b |-> FALSE],
                                     !.have = Len(ml._buffer)]
               ELSE IF "raised" \in DOMAIN prepared
                 THEN [forcer EXCEPT !.n = @ + 1, !.out = prepared]
               ELSE [pc |-> "fit", n |-> forcer.n + 1, X |-> prepared.X,
                     out |-> None, have |-> 0, held |-> None]
  /\ last_score' = None
  /\ UNCHANGED <<now, nonMlVars, accepted, ml, trainer, persisted, memo>>

\* self._train_model(X, scaler): the fit, then the install under the lock
force_retrain_install ==
  /\ forcer.pc = "fit"
  /\ \E df \in Fits : ml' = Installed(ml, MaxRetrains + forcer.n, df)
  /\ forcer' = [forcer EXCEPT !.pc = "persist", !.X = <<>>]
  /\ memo' = [v \in Vectors |-> None]
  /\ last_score' = None
  /\ UNCHANGED <<now, nonMlVars, accepted, trainer, persisted>>

\* _persist_model in the admin's thread: the read of self._model
force_retrain_persist_model ==
  /\ forcer.pc = "persist"
  /\ forcer' = [forcer EXCEPT !.pc = "dump", !.held = ml._model]
  /\ last_score' = None
  /\ UNCHANGED <<now, nonMlVars, accepted, ml, trainer, persisted, memo>>

\* the read of self._scaler and the dump, then return True
force_retrain_persist ==
  /\ forcer.pc = "dump"
  /\ \/ persisted' = [model |-> forcer.held, scaler |-> ml._scaler]
     \/ persisted' = persisted
  /\ forcer' = [forcer EXCEPT !.pc = "idle", !.out = [b |-> TRUE],
                              !.held = None]
  /\ last_score' = None
  /\ UNCHANGED <<now, nonMlVars, accepted, ml, trainer, memo>>

\* ProductionMLAdapter.__init__ with no model file at MODEL_PATH
MlInit ==
  /\ ml = [_buffer |-> <<>>, _model |-> None, _scaler |-> None, _trained |-> FALSE]
  /\ trainer = [pc |-> "sleep", n |-> 0, X |-> <<>>, held |-> None]
  /\ forcer = IdleForcer
  /\ persisted = None
  /\ last_score = None
  /\ memo = [v \in Vectors |-> None]
  /\ accepted = <<>>

MlNext ==
  \/ \E v \in Vectors : score(v)
  \/ \E v \in Observations : add_observation(v)
  \/ retrain_prepare
  \/ retrain_install
  \/ retrain_persist_model
  \/ retrain_persist

\* The adapter under observations, its retrain thread and an admin who
\* forces retrains.
RetrainNext ==
  \/ \E v \in Observations : add_observation(v)
  \/ retrain_prepare
  \/ retrain_install
  \/ retrain_persist_model
  \/ retrain_persist
  \/ force_retrain_prepare
  \/ force_retrain_install
  \/ force_retrain_persist_model
  \/ force_retrain_persist

\* The two retrainers with requests that score while they run.
SwapNext ==
  \/ \E v \in {Quiet, Burst} : score(v)
  \/ \E v \in Vectors : add_observation(v)
  \/ retrain_prepare
  \/ retrain_install
  \/ retrain_persist_model
  \/ retrain_persist
  \/ force_retrain_prepare
  \/ force_retrain_install
  \/ force_retrain_persist_model
  \/ force_retrain_persist

\* ===================================================================
\* Metadata sanitizer (metadata_sanitizer.py)
\* ===================================================================
\* Metadata values carry their Python type. A string is its length, the
\* character classes _ai_assess_field looks for, and its text; a float is
\* held in thousandths.
Lit(text, len) ==
  [str |-> [len |-> len, digit |-> FALSE, at |-> FALSE, dot |-> FALSE,
            text |-> [lit |-> text]]]
IntV(k) == [int |-> k]
FloatV(k) == [float |-> k]
BoolV(b) == [bool |-> b]
\* None as a metadata value: a field the client left out or sent as null.
NoneV == [none |-> TRUE]
IsStr(v) == "str" \in DOMAIN v
IsFloat(v) == "float" \in DOMAIN v
IsBool(v) == "bool" \in DOMAIN v
IsNone(v) == "none" \in DOMAIN v
\* The integer an int is, and the integer a bool is as a subclass of int.
AsInt(v) == IF IsBool(v) THEN (IF v.bool THEN 1 ELSE 0) ELSE v.int

\* Field names of each class: the names below that contain a pattern of
\* _sensitive_fields, of _medium_risk_fields, of _low_risk_fields, or none.
FieldNames == {"email", "timestamp", "type", "interval"}
IsSensitive(field) == field = "email"
IsMedium(field) == field = "timestamp"
IsLow(field) == field \in {"type", "padded_size"}
\* 'time' in field.lower() or 'timestamp' in field.lower()
IsTimeField(field) == field = "timestamp"
\* any(keyword in field_name for keyword in suspicious_keywords)
HasKeyword(field) == FALSE

MetadataValues ==
  {Lit("abc", 3), Lit("a-twenty-one-letter-text", 21), IntV(17), FloatV(1234),
   BoolV(TRUE)}

\* secrets.randbelow(10) - 5 and secrets.randbelow(100) (thousandths), sampled
NoiseSamples ==
  {[offset |-> -5, noise |-> 0], [offset |-> 0, noise |-> 4],
   [offset |-> 4, noise |-> 99]}

\* round(x, 2) on thousandths, ties to even
Round2(k) ==
  LET lo == (k \div 10) * 10
      r == k - lo
  IN IF r < 5 THEN lo
     ELSE IF r > 5 THEN lo + 10
     ELSE IF (lo \div 10) % 2 = 0 THEN lo ELSE lo + 10

\* "obf_" + sha256(f"{field}:{value}").hexdigest()[:8]
ObfString(field, value) ==
  [str |-> [len |-> 12, digit |-> TRUE, at |-> FALSE, dot |-> FALSE,
            text |-> [sha256 |-> <<field, value.str.text>>]]]

_obfuscate_value(field, value, nz) ==
  IF IsStr(value)
    THEN IF value.str.len > 0 THEN ObfString(field, value) ELSE value
  ELSE IF IsFloat(value) THEN FloatV(Round2(value.float + nz.noise))
  ELSE IF IsNone(value) THEN ObfString(field, Lit("None", 4))
  ELSE IntV(AsInt(value) + nz.offset)

_quantize_value(field, value) ==
  IF IsFloat(value)
    THEN IF IsTimeField(field) THEN IntV(((value.float \div 1000) \div 60) * 60)
                               ELSE FloatV(Round2(value.float))
  ELSE IF IsStr(value)
    THEN IF value.str.len <= 5 THEN Lit("short", 5)
         ELSE IF value.str.len <= 20 THEN Lit("medium", 6)
         ELSE Lit("long", 4)
  ELSE IF IsNone(value) THEN value
  ELSE IntV((AsInt(value) \div 10) * 10)

\* _ai_assess_field, in hundredths
_ai_assess_field(field, value) ==
  LET s1 == IF IsStr(value)
              THEN (IF value.str.len > 0 /\ value.str.digit THEN 30 ELSE 0)
                   + (IF value.str.at THEN 80 ELSE IF value.str.dot THEN 60 ELSE 0)
              ELSE IF IsFloat(value)
                THEN (IF /\ \/ value.float \div 1000 > 1000000000
                            \/ /\ value.float \div 1000 = 1000000000
                               /\ value.float % 1000 > 0
                         /\ value.float \div 1000 < 2000000000
                        THEN 40 ELSE 0)
              ELSE IF IsNone(value) THEN 0
              ELSE (IF AsInt(value) > 1000000000 /\ AsInt(value) < 2000000000
                      THEN 40 ELSE 0)
      s2 == s1 + (IF HasKeyword(field) THEN 30 ELSE 0)
  IN IF s2 > 100 THEN 100 ELSE s2

\* _assess_field_risk and the amount analyze_metadata adds for its level
FieldRisk(field, value) ==
  IF IsSensitive(field) THEN 80
  ELSE IF IsMedium(field) THEN 40
  ELSE IF IsLow(field) THEN 10
  ELSE LET a == _ai_assess_field(field, value) IN
       IF a > 70 THEN 80 ELSE IF a > 40 THEN 40 ELSE 10

RECURSIVE SumRisk(_, _)
SumRisk(m, fields) ==
  IF fields = {} THEN 0
  ELSE LET f == CHOOSE f \in fields : TRUE IN
       FieldRisk(f, m[f]) + SumRisk(m, fields \ {f})

\* analyze_metadata: risk_score, in hundredths
analyze_metadata(m) ==
  LET total == SumRisk(m, DOMAIN m) IN IF total > 100 THEN 100 ELSE total

\* sanitize_metadata: the sanitized map, nz the noise drawn for each field
sanitize_metadata(m, nz, risk_threshold) ==
  LET risk == analyze_metadata(m)
      kept == {f \in DOMAIN m :
                 /\ ~IsSensitive(f)
                 /\ (IsMedium(f) \/ IsLow(f) \/ ~(risk > risk_threshold))}
  IN [f \in kept |->
        IF IsMedium(f) THEN _obfuscate_value(f, m[f], nz[f])
        ELSE IF IsLow(f) THEN _quantize_value(f, m[f])
        ELSE _obfuscate_value(f, m[f], nz[f])]

\* SENSITIVE_FIELD_THRESHOLD, in hundredths
SENSITIVE_FIELD_THRESHOLD == 70

\* _store_pattern: append, dropping the oldest beyond the cap
_store_pattern(n) == IF n + 1 > MaxPatterns THEN MaxPatterns ELSE n + 1

Metadata ==
  UNION {[fs -> MetadataValues] :
           fs \in {d \in SUBSET FieldNames : Cardinality(d) <= MaxFields}}

IdleSanitizer == [pc |-> "idle", m |-> <<>>, first |-> <<>>, second |-> <<>>]

\* sanitize_metadata(m)
sanitize(m) ==
  /\ san.pc = "idle"
  /\ \E nz \in [DOMAIN m -> NoiseSamples] :
       san' = [pc |-> "once", m |-> m,
               first |-> sanitize_metadata(m, nz, SENSITIVE_FIELD_THRESHOLD),
               second |-> <<>>]
  /\ _pattern_history' = _store_pattern(_pattern_history)
  /\ UNCHANGED <<now, nonSanVars, build>>

\* sanitize_metadata(sanitized)
sanitize_again ==
  /\ san.pc = "once"
  /\ \E nz \in [DOMAIN san.first -> NoiseSamples] :
       san' = [san EXCEPT !.pc = "twice",
                 !.second = sanitize_metadata(san.first, nz, SENSITIVE_FIELD_THRESHOLD)]
  /\ _pattern_history' = _store_pattern(_pattern_history)
  /\ UNCHANGED <<now, nonSanVars, build>>

\* the caller drops both results
sanitize_done ==
  /\ san.pc = "twice"
  /\ san' = IdleSanitizer
  /\ UNCHANGED <<now, nonSanVars, _pattern_history, build>>

\* ---- post_send, from the validated request to the feature vector --------
\* The keys of SendRequest.metadata.dict(): the fields of schemas.Metadata.
SendFields == {"padded_size", "interval", "new_device", "exception_flag"}

\* What validation lets each field be; a field left out arrives as its default.
SendMetadata ==
  {m \in [SendFields -> {NoneV, IntV(0), IntV(64), FloatV(0), FloatV(2500),
                         BoolV(FALSE), BoolV(TRUE)}] :
     /\ m["padded_size"] \in {NoneV, IntV(0), IntV(64)}
     /\ m["interval"] \in {NoneV, FloatV(0), FloatV(2500)}
     /\ m["new_device"] \in {NoneV, BoolV(FALSE), BoolV(TRUE)}
     /\ m["exception_flag"] \in {BoolV(FALSE), BoolV(TRUE)}}

\* metadata.get(field)
Get(md, field) == IF field \in DOMAIN md THEN md[field] ELSE NoneV

\* bool(value)
Truthy(v) ==
  IF IsNone(v) THEN FALSE
  ELSE IF IsStr(v) THEN v.str.len > 0
  ELSE IF IsFloat(v) THEN v.float # 0
  ELSE AsInt(v) # 0

\* float(value or default), in thousandths; a string that is no number
\* makes float() raise ValueError.
FloatOr(v, default) ==
  IF ~Truthy(v) THEN [x |-> default]
  ELSE IF IsStr(v) THEN [raised |-> "ValueError"]
  ELSE IF IsFloat(v) THEN [x |-> v.float]
  ELSE [x |-> 1000 * AsInt(v)]

_build_vector_from_metadata(md) ==
  IF DOMAIN md = {} THEN [vector |-> <<0, 0, 1000, 0>>]
  ELSE LET padded_size == FloatOr(Get(md, "padded_size"), 0)
           interval == FloatOr(Get(md, "interval"), 0)
           dest_count == FloatOr(Get(md, "dest_count"), 1000)
           device_change == IF Truthy(Get(md, "new_device")) THEN 1000 ELSE 0
       IN IF "raised" \in DOMAIN padded_size THEN padded_size
          ELSE IF "raised" \in DOMAIN interval THEN interval
          ELSE IF "raised" \in DOMAIN dest_count THEN dest_count
          ELSE [vector |-> <<padded_size.x, interval.x, dest_count.x,
                             device_change>>]

IdleBuild == [pc |-> "idle", metadata |-> <<>>, sanitized |-> <<>>,
              outcome |-> "none", vector |-> <<>>]

\* req = SendRequest.parse_obj(body); metadata = req.metadata.dict()
post_send_parse(m) ==
  /\ build.pc = "idle"
  /\ build' = [IdleBuild EXCEPT !.pc = "sanitize", !.metadata = m]
  /\ UNCHANGED <<now, nonSanVars, san, _pattern_history>>

\* Step 2: sanitized_metadata, report = sanitize_metadata(metadata)
post_send_sanitize ==
  /\ build.pc = "sanitize"
  /\ \E nz \in [DOMAIN build.metadata -> NoiseSamples] :
       build' = [build EXCEPT !.pc = "vector",
                   !.sanitized = sanitize_metadata(build.metadata, nz,
                                                   SENSITIVE_FIELD_THRESHOLD)]
  /\ _pattern_history' = _store_pattern(_pattern_history)
  /\ UNCHANGED <<now, nonSanVars, san>>

\* Step 3: vector = _build_vector_from_metadata(sanitized_metadata), outside
\* every try: what it raises leaves post_send as an internal server error.
\* With a vector the handler goes on to scoring and the policy decision.
post_send_vector ==
  /\ build.pc = "vector"
  /\ LET r == _build_vector_from_metadata(build.sanitized) IN
     build' = [build EXCEPT
                 !.pc = "done",
                 !.outcome = IF "raised" \in DOMAIN r THEN "internal_error"
                             ELSE "scoring",
                 !.vector = IF "raised" \in DOMAIN r THEN <<>> ELSE r.vector]
  /\ UNCHANGED <<now, nonSanVars, san, _pattern_history>>

\* HTTP 500: the exception left the handler
post_send_end ==
  /\ build.pc = "done"
  /\ build.outcome = "internal_error"
  /\ build' = IdleBuild
  /\ UNCHANGED <<now, nonSanVars, san, _pattern_history>>

\* "exception_flag": bool(sanitized_metadata.get("exception_flag", False))
SummaryFlag(sanitized) ==
  IF "exception_flag" \in DOMAIN sanitized
    THEN Truthy(sanitized["exception_flag"])
    ELSE FALSE

\* Steps 4-5 and the call of decide_action: the risk is what scoring and the
\* leak adjustment produced; metadata_summary carries the sanitized flag.
post_send_decide(risk, token) ==
  /\ build.pc = "done"
  /\ build.outcome = "scoring"
  /\ pol[Handler].pc = "idle"
  /\ calls < MaxCalls
  /\ calls' = calls + 1
  /\ pol' = [pol EXCEPT ![Handler] =
               EnteredCall(risk, token, SummaryFlag(build.sanitized), NoActor)]
  /\ build' = [build EXCEPT !.pc = "deciding"]
  /\ UNCHANGED <<now, storeVars, sendVars, kmVars, mlVars, auditVars, authVars,
                 lockVars, wipeVars, san, _pattern_history, THRESH_ALLOW, THRESH_REAUTH,
                 SHADOW_MODE, CANARY_FRACTION, exception_events, audit_log, adm,
                 grants>>

\* decide_action has returned: the handler stores the ciphertext or not and
\* responds.
post_send_respond ==
  /\ build.pc = "deciding"
  /\ pol[Handler].pc = "ret"
  /\ IF post_send_outcome(pol[Handler]).put
       THEN StorePut(pol[Handler].token, "hello", 1)
       ELSE UNCHANGED storeVars
  /\ pol' = [pol EXCEPT ![Handler] = IdleCall]
  /\ build' = IdleBuild
  /\ UNCHANGED <<now, sendVars, kmVars, mlVars, auditVars, authVars, lockVars, wipeVars,
                 san, _pattern_history, THRESH_ALLOW, THRESH_REAUTH, SHADOW_MODE,
                 CANARY_FRACTION, exception_events, audit_log, adm, calls, grants>>

VectorNext ==
  \/ \E m \in SendMetadata : post_send_parse(m)
  \/ post_send_sanitize
  \/ post_send_vector
  \/ post_send_end
  \/ \E r \in Risks : post_send_decide(r, "alpha")
  \/ decide_cmp_allow(Handler)
  \/ decide_cmp_reauth(Handler)
  \/ decide_flag(Handler)
  \/ decide_quota(Handler)
  \/ decide_audit(Handler)
  \/ post_send_respond

SanInit ==
  /\ san = IdleSanitizer
  /\ build = IdleBuild
  /\ _pattern_history = 0

SanNext ==
  \/ \E m \in Metadata : sanitize(m)
  \/ sanitize_again
  \/ sanitize_done

\* ===================================================================
\* ForensicResistantAudit (services/forensic_resistant_audit.py)
\* ===================================================================
\* A character of a log line.
Sym(c) == [ch |-> c]

Bar == Sym("|")

\* The tamper key this process derived, and the one an earlier process had.
ProcessKey == "key_of_this_process"
PriorKey == "key_of_an_earlier_process"

\* The event types callers pass; a type is free text and may hold a bar.
EventTypes == {<<Sym("sent")>>, <<Sym("read"), Bar, Sym("all")>>}

\* A key of an event: its name, with a final "_hash" or "_id" as a piece of
\* its own ("user_id" is <<"user", "_id">>).
\* key.endswith(suffix)
endswith(key, suffix) == key[Len(key)] = suffix

\* self._opaque_hash(str(value)): "null" for an empty text, else 16 hex digits
_opaque_hash(data) == IF data = "" THEN [text |-> "null"] ELSE [sha256_16 |-> data]

\* What callers pass after the event type (**kwargs): storage.py passes
\* token_hash, ttl, message_size and forensic_id; the others are identifiers
\* a caller holds.
Kwargs ==
  {<< >>,
   [k \in {<<"token", "_hash">>, <<"ttl">>, <<"message_size">>} |->
      IF k = <<"token", "_hash">> THEN _opaque_hash("alpha") ELSE [text |-> "60"]],
   [k \in {<<"token", "_hash">>, <<"forensic", "_id">>} |->
      IF k = <<"token", "_hash">> THEN _opaque_hash("alpha") ELSE [text |-> "f1"]],
   [k \in {<<"token">>} |-> [text |-> "alpha"]],
   [k \in {<<"user", "_id">>} |-> [text |-> "alice"]]}

safe_fields ==
  {<<"action">>, <<"policy">>, <<"risk">>, <<"reason">>, <<"event_type">>,
   <<"key", "_id">>, <<"ttl">>, <<"status">>, <<"admin_action">>}

\* The keys _sanitize_event turns into opaque hashes.
HashedFields == {<<"token">>, <<"user", "_id">>, <<"client_ip">>, <<"device", "_id">>}

\* The branch of _sanitize_event's loop a key takes: "keep", "hash" or "drop".
Branch(key) ==
  IF key \in safe_fields THEN "keep"
  ELSE IF endswith(key, "_hash") \/ endswith(key, "_id") THEN "keep"
  ELSE IF key \in HashedFields THEN "hash"
  ELSE "drop"

\* _sanitize_event: the event type, a fresh event id (ts is left out), and
\* the fields its loop lets through.
_sanitize_event(event_type, kwargs, n) ==
  LET kept == {k \in DOMAIN kwargs : Branch(k) = "keep"}
      hashed == {k \in DOMAIN kwargs : Branch(k) = "hash"}
      out == kept \cup {k \o <<"_hash">> : k \in hashed}
  IN [event_type |-> event_type, event_id |-> [id |-> n],
      fields |-> [k \in out |->
                    IF k \in kept THEN kwargs[k]
                    ELSE _opaque_hash(kwargs[SubSeq(k, 1, Len(k) - 1)].text)]]

\* json.dumps(entry, separators=(',', ':')); the other fields are one symbol.
json_dumps(entry) ==
  <<Sym("{")>> \o entry.event_type
     \o <<entry.event_id, [kv |-> entry.fields], Sym("}")>>

\* The first 16 hex digits of pbkdf2_hmac over data under the key that is passed.
KeyedChecksum(key, data) == <<[pbkdf2 |-> <<key, data>>]>>

\* A checksum that does not depend on the key.
KeylessChecksum(key, data) == <<[pbkdf2 |-> <<"", data>>]>>

_calculate_checksum(key, data) == KeyedChecksum(key, data)

\* f"{json_data}|{checksum}"
LogLine(key, entry) ==
  json_dumps(entry) \o <<Bar>> \o _calculate_checksum(key, json_dumps(entry))

\* line.rsplit("|", 1): the text before the last bar, and the text after it.
LastBar(line) ==
  CHOOSE i \in 1..Len(line) :
    /\ line[i] = Bar
    /\ \A j \in (i + 1)..Len(line) : line[j] # Bar

rsplit(line) ==
  [json_data |-> SubSeq(line, 1, LastBar(line) - 1),
   checksum |-> SubSeq(line, LastBar(line) + 1, Len(line))]

HasBar(line) == \E i \in 1..Len(line) : line[i] = Bar

\* One pass of verify_log_integrity's loop over a line.
LineValid(line) ==
  IF HasBar(line)
  THEN rsplit(line).checksum
         = _calculate_checksum(ProcessKey, rsplit(line).json_data)
  ELSE TRUE

CountValid(lines) == Cardinality({i \in 1..Len(lines) : LineValid(lines[i])})

\* The logs a starting process can find at AUDIT_LOG_PATH: none, or one
\* that an earlier process of the service left there.
NoFile == [exists |-> FALSE, lines |-> <<>>]

File(lines) == [exists |-> TRUE, lines |-> lines]

PriorLogs ==
  {NoFile,
   File(<<LogLine(PriorKey, _sanitize_event(<<Sym("sent")>>, << >>, 0))>>)}

FileLines == audit_file.lines

\* The bytes a file holds: its lines, each with its newline.
RECURSIVE Bytes(_)
Bytes(lines) == IF lines = << >> THEN 0 ELSE Len(Head(lines)) + 1 + Bytes(Tail(lines))

\* A rotated file is known by its size and by the rotation that produced it
\* (0 and below: rotations of earlier processes).
NoArchive == [exists |-> FALSE, bytes |-> 0, gen |-> 0]
Archive(file, gen) == [exists |-> TRUE, bytes |-> Bytes(file.lines), gen |-> gen]

\* The suffixes a rotated log can have: _rotate_log renames .i to .i+1 for
\* i below AUDIT_LOG_ROTATION_COUNT and the active file to .1.
Suffixes == 1..(IF AUDIT_LOG_ROTATION_COUNT > 1 THEN AUDIT_LOG_ROTATION_COUNT ELSE 1)

\* _rotate_log on the files: for i from AUDIT_LOG_ROTATION_COUNT - 1 down to
\* 1, .i is renamed to .i+1 if it exists (replacing what was there); then
\* the active file is renamed to .1.
Rotated(files, active) ==
  [i \in Suffixes |->
     IF i = 1 THEN Archive(active, audit_stats.rotations + 1)
     ELSE IF files[i - 1].exists THEN files[i - 1]
     ELSE files[i]]

\* _write_log_entry under the lock; ok is whether open and write succeed.
\* A failure is logged and swallowed.  The line and a newline are written,
\* _log_size grows by the length of the line, and _rotate_log follows when
\* _log_size exceeds AUDIT_LOG_MAX_SIZE.
_write_log_entry(entry, ok) ==
  LET line == LogLine(ProcessKey, entry)
      written == File(Append(FileLines, line))
  IN
  /\ integrity' = None
  /\ IF ~ok
     THEN /\ audit_stats' = [audit_stats EXCEPT !.attempts = @ + 1]
          /\ UNCHANGED <<audit_file, rotated, _log_size>>
     ELSE IF _log_size + Len(line) > AUDIT_LOG_MAX_SIZE
          THEN /\ rotated' = Rotated(rotated, written)
               /\ audit_file' = NoFile
               /\ _log_size' = 0
               /\ audit_stats' = [audit_stats EXCEPT !.attempts = @ + 1,
                                                     !.appended = @ + 1,
                                                     !.rotations = @ + 1,
                                                     !.altered = 0]
          ELSE /\ audit_file' = written
               /\ _log_size' = _log_size + Len(line)
               /\ audit_stats' = [audit_stats EXCEPT !.attempts = @ + 1,
                                                     !.appended = @ + 1]
               /\ UNCHANGED rotated

\* The event id the next call's _generate_event_id draws.
NextEventId == audit_stats.attempts + 1

log_message_event(event_type, kwargs, ok) ==
  /\ audit_stats.attempts < MaxAppends
  /\ _write_log_entry(_sanitize_event(event_type, kwargs, NextEventId), ok)
  /\ UNCHANGED <<now, nonAuditVars>>

log_security_event(event_type, kwargs, ok) ==
  /\ audit_stats.attempts < MaxAppends
  /\ _write_log_entry(
       _sanitize_event(<<Sym("security"), Sym("_")>> \o event_type, kwargs,
                       NextEventId),
       ok)
  /\ UNCHANGED <<now, nonAuditVars>>

log_admin_event(event_type, kwargs, ok) ==
  /\ audit_stats.attempts < MaxAppends
  /\ _write_log_entry(
       _sanitize_event(<<Sym("admin"), Sym("_")>> \o event_type, kwargs,
                       NextEventId),
       ok)
  /\ UNCHANGED <<now, nonAuditVars>>

\* verify_log_integrity: it takes no lock and reads the file in one call.
verify_log_integrity ==
  /\ integrity' =
       IF ~audit_file.exists
       THEN [status |-> "error"]
       ELSE [status |-> IF CountValid(FileLines) = Len(FileLines)
                        THEN "verified" ELSE "tampered",
             valid_entries |-> CountValid(FileLines),
             invalid_entries |-> Len(FileLines) - CountValid(FileLines),
             total_entries |-> Len(FileLines)]
  /\ UNCHANGED <<audit_file, rotated, _log_size, audit_stats>>
  /\ UNCHANGED <<now, nonAuditVars>>

AuditInit ==
  /\ audit_file = NoFile
  /\ rotated = [i \in Suffixes |-> NoArchive]
  /\ _log_size = 0
  /\ audit_stats = [attempts |-> 0, appended |-> 0, rotations |-> 0, prior |-> 0,
                    altered |-> 0]
  /\ integrity = None

\* A process that starts where an earlier one has or has not left a log.
AuditInitAny ==
  /\ audit_file \in PriorLogs
  /\ rotated = [i \in Suffixes |-> NoArchive]
  /\ _log_size = 0
  /\ audit_stats = [attempts |-> 0, appended |-> 0, rotations |-> 0,
                    prior |-> Len(FileLines), altered |-> 0]
  /\ integrity = None

\* The log an earlier process rotated to suffix n.
OldLog(n) ==
  Archive(File(<<LogLine(PriorKey, _sanitize_event(<<Sym("read")>>, << >>, n))>>),
          1 - n)

\* A process that starts where earlier ones have rotated their logs.
AuditInitRotated ==
  /\ audit_file \in PriorLogs
  /\ rotated \in {r \in [Suffixes -> {NoArchive} \cup {OldLog(n) : n \in Suffixes}] :
                    \A i \in Suffixes :
                      /\ r[i].exists => r[i] = OldLog(i)
                      /\ (r[i].exists /\ i > 1) => r[i - 1].exists}
  /\ _log_size = 0
  /\ audit_stats = [attempts |-> 0, appended |-> 0, rotations |-> 0,
                    prior |-> Len(FileLines), altered |-> 0]
  /\ integrity = None

\* What someone with access to the file can make of a line: the bar and the
\* checksum cut off, or the record changed under the old checksum.
Alterations == {"cut", "edit"}

AlteredLine(line, how) ==
  IF how = "cut"
    THEN IF HasBar(line) THEN SubSeq(line, 1, LastBar(line) - 1) ELSE line
    ELSE [line EXCEPT ![1] = Sym("[")]

\* The file at AUDIT_LOG_PATH is edited outside the logger; audit_stats.altered
\* counts the lines of the file that are no longer as they were written.
alter_line(i, how) ==
  /\ audit_file.exists
  /\ i \in 1..Len(FileLines)
  /\ audit_stats.altered = 0
  /\ AlteredLine(FileLines[i], how) # FileLines[i]
  /\ audit_file' = File([FileLines EXCEPT ![i] = AlteredLine(@, how)])
  /\ audit_stats' = [audit_stats EXCEPT !.altered = 1]
  /\ integrity' = None
  /\ UNCHANGED <<rotated, _log_size>>
  /\ UNCHANGED <<now, nonAuditVars>>

\* The logger, the verification, and someone who edits the file.
TamperNext ==
  \/ \E e \in EventTypes, ok \in BOOLEAN : log_message_event(e, << >>, ok)
  \/ \E e \in EventTypes, ok \in BOOLEAN : log_security_event(e, << >>, ok)
  \/ \E e \in EventTypes, ok \in BOOLEAN : log_admin_event(e, << >>, ok)
  \/ verify_log_integrity
  \/ \E i \in 1..MaxAppends, how \in Alterations : alter_line(i, how)

AuditNext ==
  \/ \E e \in EventTypes, kw \in Kwargs, ok \in BOOLEAN : log_message_event(e, kw, ok)
  \/ \E e \in EventTypes, kw \in Kwargs, ok \in BOOLEAN : log_security_event(e, kw, ok)
  \/ \E e \in EventTypes, kw \in Kwargs, ok \in BOOLEAN : log_admin_event(e, kw, ok)
  \/ verify_log_integrity

\* ===================================================================
\* The locks of the core components, and the order threads take them in
\* ===================================================================
\* self._lock of the store, the audit logger, the key manager, the scorer,
\* the sanitizer, its analyzer and the leak detector; the policy engine's
\* _exception_lock and _threshold_lock.
Locks ==
  {"store", "audit", "key_manager", "ml", "sanitizer", "analyzer", "detector",
   "exception", "threshold"}

\* threading.RLock() admits its owner again; threading.Lock() does not.
Reentrant(l) == l \notin {"exception", "threshold"}

Acq(l) == [do |-> "acquire", lock |-> l]
Rel(l) == [do |-> "release", lock |-> l]

\* with self._lock: a block that calls into no other component
Block(l) == <<Acq(l), Rel(l)>>

\* A statement that reads or writes the store's keyed map or its deletion
\* queue.
Map == "_store"
Queue == "_deletion_queue"
Touch(what) == [do |-> "touch", what |-> what]

\* with self._lock: a block of the store that reads or writes what
StoreBlock(what) == <<Acq("store"), Touch(what), Rel("store")>>

\* score holds a lock that admits no second component.
ScoreCallingDetector ==
  <<Acq("ml"), Acq("detector"), Rel("detector"), Rel("ml")>>

\* score: one block under the scorer's lock; the heuristic it falls back to
\* takes no lock
ScoreLocks == Block("ml")

\* The lock steps of an operation, in program order.
LockSteps(op) ==
  CASE op = "put" -> StoreBlock({Map}) \o Block("audit")
    [] op = "get" -> StoreBlock({Map}) \o Block("audit")
    \* the entry is absent, or expired and queued for deletion
    [] op = "get_miss" -> StoreBlock({Map, Queue})
    [] op = "mark_read_and_delete" -> StoreBlock({Map, Queue}) \o Block("audit")
    \* queue every key; pop a token under the lock, _secure_delete_entry
    \* after the block; the pop that finds the queue empty
    [] op = "force_secure_cleanup" ->
         StoreBlock({Map, Queue}) \o StoreBlock({Queue}) \o <<Touch({Map})>>
         \o StoreBlock({Queue}) \o Block("audit")
    [] op = "sanitize_metadata" ->
         <<Acq("sanitizer"), Acq("analyzer"), Rel("analyzer"), Rel("sanitizer")>>
    [] op = "detect_metadata_leaks" ->
         <<Acq("detector")>> \o ScoreLocks \o <<Rel("detector")>>
    [] op = "score" -> ScoreLocks
    [] op = "add_observation" -> Block("ml")
    [] op = "decide_action" -> << >>
    [] op = "decide_action_exception" -> Block("exception")
    [] op = "set_thresholds" -> Block("threshold")
    [] op = "log_security_event" -> Block("audit")
    [] op = "export_public_keys" -> Block("key_manager")
    [] op = "derive_shared_secret_server_side" -> Block("key_manager")
    \* copy and clear the queue; _secure_delete_entry per token; scan the
    \* map; _queue_secure_deletion per expired token
    [] op = "_secure_cleanup_loop" ->
         StoreBlock({Queue}) \o <<Touch({Map})>>
         \o StoreBlock({Map}) \o <<Touch({Queue})>>
    [] op = "_periodic_retrain_loop" -> Block("ml") \o Block("ml")
    [] op = "_rotate_loop" -> Block("key_manager")

\* The request workers and the three daemon threads.
RequestWorkers == {"w1", "w2"}
Daemons == {"sweeper", "retrainer", "rotator"}
CoreThreads == RequestWorkers \cup Daemons

\* What each thread executes: a request worker any core operation, a daemon
\* one round of its loop.
OpsOf(t) ==
  CASE t = "sweeper" -> {"_secure_cleanup_loop"}
    [] t = "retrainer" -> {"_periodic_retrain_loop"}
    [] t = "rotator" -> {"_rotate_loop"}
    [] OTHER ->
         {"put", "get", "get_miss", "mark_read_and_delete", "force_secure_cleanup",
          "sanitize_metadata", "detect_metadata_leaks", "score", "add_observation",
          "decide_action", "decide_action_exception", "set_thresholds",
          "log_security_event", "export_public_keys",
          "derive_shared_secret_server_side"}

IdleThread == [op |-> "idle", pc |-> 1]

\* The lock steps of every operation a thread can execute.
Scripts == [op \in UNION {OpsOf(t) : t \in CoreThreads} |-> LockSteps(op)]

\* The lock step thread t is at, or None when its operation has none left.
NextStep(t) ==
  IF running[t].op = "idle" \/ running[t].pc > Len(Scripts[running[t].op])
  THEN None
  ELSE Scripts[running[t].op][running[t].pc]

\* Thread t after the step it is at: at the next step of its operation, or
\* idle again when the operation has returned (a daemon: asleep until its
\* next round).
Advance(t) ==
  IF running[t].pc = Len(Scripts[running[t].op]) THEN IdleThread
  ELSE [running[t] EXCEPT !.pc = @ + 1]

\* A thread enters an operation; one that takes no lock and touches nothing
\* returns at once.
call(t, op) ==
  /\ running[t].op = "idle"
  /\ running' = [running EXCEPT ![t] = IF Scripts[op] = << >> THEN IdleThread
                                       ELSE [op |-> op, pc |-> 1]]
  /\ UNCHANGED <<now, nonLockVars, lock_owner, lock_depth>>

\* lock.acquire() can return
CanAcquire(t, l) ==
  lock_owner[l] = "free" \/ (lock_owner[l] = t /\ Reentrant(l))

\* with lock: on entry
acquire(t) ==
  /\ NextStep(t) # None
  /\ NextStep(t).do = "acquire"
  /\ CanAcquire(t, NextStep(t).lock)
  /\ lock_owner' = [lock_owner EXCEPT ![NextStep(t).lock] = t]
  /\ lock_depth' = [lock_depth EXCEPT ![NextStep(t).lock] = @ + 1]
  /\ running' = [running EXCEPT ![t] = Advance(t)]
  /\ UNCHANGED <<now, nonLockVars>>

\* with lock: on exit
release(t) ==
  /\ NextStep(t) # None
  /\ NextStep(t).do = "release"
  /\ lock_depth' = [lock_depth EXCEPT ![NextStep(t).lock] = @ - 1]
  /\ lock_owner' = [lock_owner EXCEPT ![NextStep(t).lock] =
                      IF lock_depth[NextStep(t).lock] = 1 THEN "free" ELSE @]
  /\ running' = [running EXCEPT ![t] = Advance(t)]
  /\ UNCHANGED <<now, nonLockVars>>

\* A statement on the map or the queue executes.
touch(t) ==
  /\ NextStep(t) # None
  /\ NextStep(t).do = "touch"
  /\ running' = [running EXCEPT ![t] = Advance(t)]
  /\ UNCHANGED <<now, nonLockVars, lock_owner, lock_depth>>

LockInit ==
  /\ lock_owner = [l \in Locks |-> "free"]
  /\ lock_depth = [l \in Locks |-> 0]
  /\ running = [t \in CoreThreads |-> IdleThread]

LockNext ==
  \/ \E t \in CoreThreads : \E op \in OpsOf(t) : call(t, op)
  \/ \E t \in CoreThreads : acquire(t)
  \/ \E t \in CoreThreads : release(t)
  \/ \E t \in CoreThreads : touch(t)

\* ===================================================================
\* Secure deallocation (forensic_resistant_storage.py, SecureMemoryManager)
\* ===================================================================
\* A buffer is a sequence of bytes.  Buffers are the arguments of the calls;
\* secrets.token_bytes gives any bytes, of which RandomBytes are two.
Buffers == {<< >>, <<104>>, <<104, 105>>}
RandomBytes == {60, 167}
Fill(n, b) == [i \in 1..n |-> b]
token_bytes(n) == [1..n -> RandomBytes]

IdleWipe ==
  [pc |-> "idle", is_bytearray |-> TRUE, data |-> << >>, passes |-> 0, i |-> 0,
   patterns |-> << >>,
   \* history: the kind of each fill applied, in order
   applied |-> << >>]

\* secure_deallocate(data, passes): a value that is no bytearray is left
\* alone; else the list of three patterns is built, its random one included.
Deallocating(data, is_bytearray, passes) ==
  /\ wipe.pc \in {"idle", "done"}
  /\ IF ~is_bytearray
       THEN wipe' = [IdleWipe EXCEPT !.pc = "done", !.is_bytearray = FALSE,
                                     !.data = data, !.passes = passes]
       ELSE \E r \in token_bytes(Len(data)) :
              wipe' = [IdleWipe EXCEPT !.pc = "patterns", !.data = data,
                                       !.passes = passes,
                                       !.patterns = <<Fill(Len(data), 0),
                                                      Fill(Len(data), 255), r>>]

secure_deallocate(data, is_bytearray, passes) ==
  /\ Deallocating(data, is_bytearray, passes)
  /\ UNCHANGED <<now, nonWipeVars, shared>>

PatternKinds == <<"zeros", "ones", "random">>

Min(a, b) == IF a < b THEN a ELSE b

\* for i in range(min(passes, len(patterns))): data[:] = patterns[i];
\* _ = data[0].  On an empty buffer data[0] raises IndexError, which the
\* except clause logs: the call ends.
wipe_pattern ==
  /\ wipe.pc = "patterns"
  /\ wipe.i < Min(wipe.passes, Len(wipe.patterns))
  /\ wipe' = [wipe EXCEPT !.data = wipe.patterns[wipe.i + 1],
                          !.applied = Append(@, PatternKinds[wipe.i + 1]),
                          !.i = @ + 1,
                          !.pc = IF Len(wipe.data) = 0 THEN "done" ELSE @]
  /\ UNCHANGED <<now, nonWipeVars, shared>>

\* the loop is exhausted: if passes > len(patterns), the additional passes
wipe_patterns_done ==
  /\ wipe.pc = "patterns"
  /\ ~(wipe.i < Min(wipe.passes, Len(wipe.patterns)))
  /\ wipe' = [wipe EXCEPT !.pc = IF wipe.passes > Len(wipe.patterns)
                                   THEN "additional" ELSE "done",
                          !.i = 0]
  /\ UNCHANGED <<now, nonWipeVars, shared>>

\* for _ in range(passes - len(patterns)): data[:] = secrets.token_bytes(len(data))
wipe_additional ==
  /\ wipe.pc = "additional"
  /\ \E r \in token_bytes(Len(wipe.data)) :
       wipe' = [wipe EXCEPT !.data = r,
                            !.applied = Append(@, "random"),
                            !.i = @ + 1,
                            !.pc = IF wipe.i + 1 = wipe.passes - Len(wipe.patterns)
                                     THEN "done" ELSE @]
  /\ UNCHANGED <<now, nonWipeVars, shared>>

\* ---- an entry read by get while _secure_delete_entry deletes it --------
\* The keys of the dict put stores, in the order of its literal.
EntryKeys ==
  <<"ciphertext", "expire_at", "read", "created_at", "access_count",
    "forensic_id">>

KeySet(n) == {EntryKeys[i] : i \in n..Len(EntryKeys)}

\* The bytes a caller gives to put.
Given == {<<104>>, <<104, 105>>}

\* in_map: _store holds the entry; queued: _deletion_queue holds its token;
\* given: the bytes of the put; buf: the bytearray; keys: the keys the dict
\* has; g, copy: position of get and the bytes it has copied; out: what the
\* last get returned or raised; d, k: position of _secure_delete_entry and
\* the index of the key its loop is at.
NoShared ==
  [in_map |-> FALSE, queued |-> FALSE, given |-> << >>, buf |-> << >>,
   expire_at |-> 0, keys |-> {}, g |-> "idle", copy |-> << >>, out |-> None,
   d |-> "idle", k |-> 1]

KeyError == [raised |-> "KeyError"]

\* The bytearray as it is now: secure_deallocate writes into the object the
\* entry holds.
Content == IF shared.d \in {"wipe", "rewipe"} THEN wipe.data ELSE shared.buf

\* put of an entry under a token the map does not hold
shared_put(ciphertext, ttl_seconds) ==
  /\ ~shared.in_map /\ shared.g = "idle" /\ shared.d = "idle"
  /\ shared' = [NoShared EXCEPT !.in_map = TRUE, !.given = ciphertext,
                                !.buf = ciphertext,
                                !.expire_at = now + ttl_seconds,
                                !.keys = KeySet(1)]
  /\ UNCHANGED <<now, wipe, nonWipeVars>>

\* mark_read_and_delete of the token, under the lock get holds while it runs
shared_mark_read_and_delete ==
  /\ shared.in_map /\ shared.g = "idle"
  /\ shared' = [shared EXCEPT !.queued = TRUE]
  /\ UNCHANGED <<now, wipe, nonWipeVars>>

\* entry = self._store.get(token); if not entry: return None
get_fetch ==
  /\ shared.g = "idle"
  /\ shared' = IF shared.in_map
                 THEN [shared EXCEPT !.g = "expiry", !.out = None]
                 ELSE [shared EXCEPT !.out = None]
  /\ UNCHANGED <<now, wipe, nonWipeVars>>

\* if time.time() > entry["expire_at"]: queue the token, return None
get_expiry ==
  /\ shared.g = "expiry"
  /\ shared' = IF "expire_at" \notin shared.keys
                 THEN [shared EXCEPT !.g = "idle", !.out = KeyError]
               ELSE IF now > shared.expire_at
                 THEN [shared EXCEPT !.g = "idle", !.queued = TRUE]
               ELSE [shared EXCEPT !.g = "count"]
  /\ UNCHANGED <<now, wipe, nonWipeVars>>

\* entry["access_count"] += 1
get_count ==
  /\ shared.g = "count"
  /\ shared' = IF "access_count" \notin shared.keys
                 THEN [shared EXCEPT !.g = "idle", !.out = KeyError]
                 ELSE [shared EXCEPT !.g = "copy"]
  /\ UNCHANGED <<now, wipe, nonWipeVars>>

\* bytes(entry["ciphertext"])
get_copy ==
  /\ shared.g = "copy"
  /\ shared' = IF "ciphertext" \notin shared.keys
                 THEN [shared EXCEPT !.g = "idle", !.out = KeyError]
                 ELSE [shared EXCEPT !.g = "return", !.copy = Content]
  /\ UNCHANGED <<now, wipe, nonWipeVars>>

\* entry["expire_at"], entry["read"], entry["forensic_id"]; return the dict
get_return ==
  /\ shared.g = "return"
  /\ shared' = IF {"expire_at", "read", "forensic_id"} \subseteq shared.keys
                 THEN [shared EXCEPT !.g = "idle", !.copy = << >>,
                                     !.out = [ciphertext |-> shared.copy,
                                              expire_at |-> shared.expire_at]]
                 ELSE [shared EXCEPT !.g = "idle", !.copy = << >>,
                                     !.out = KeyError]
  /\ UNCHANGED <<now, wipe, nonWipeVars>>

\* _secure_delete_entry(token) for a token the sweeper took from the queue
\* (no lock): entry = self._store.pop(token, None); the ciphertext is a
\* bytearray: secure_deallocate(ciphertext, SECURE_DELETE_PASSES)
delete_pop ==
  /\ shared.d = "idle" /\ shared.queued
  /\ IF shared.in_map
       THEN /\ Deallocating(shared.buf, TRUE, SECURE_DELETE_PASSES)
            /\ shared' = [shared EXCEPT !.queued = FALSE, !.in_map = FALSE,
                                        !.d = "wipe"]
       ELSE /\ shared' = [shared EXCEPT !.queued = FALSE]
            /\ UNCHANGED wipe
  /\ UNCHANGED <<now, nonWipeVars>>

\* for key in list(entry.keys()): a bytearray value is given to
\* secure_deallocate once more; del entry[key]
delete_key ==
  /\ shared.d \in {"wipe", "rewipe", "keys"}
  /\ shared.d \in {"wipe", "rewipe"} => wipe.pc = "done"
  /\ IF shared.d = "wipe"
       THEN /\ Deallocating(wipe.data, TRUE, SECURE_DELETE_PASSES)
            /\ shared' = [shared EXCEPT !.d = "rewipe"]
       ELSE /\ shared' = [shared EXCEPT
                            !.buf = Content,
                            !.keys = @ \ {EntryKeys[shared.k]},
                            !.k = IF shared.k = Len(EntryKeys) THEN 1 ELSE @ + 1,
                            !.d = IF shared.k = Len(EntryKeys) THEN "idle"
                                  ELSE "keys"]
            /\ UNCHANGED wipe
  /\ UNCHANGED <<now, nonWipeVars>>

\* The deleter's secure_deallocate calls have passes = SECURE_DELETE_PASSES,
\* the number of patterns: none of them reaches the additional passes.
ReadNext ==
  \/ StoreTick
  \/ \E c \in Given, ttl \in 1..MaxTtl : shared_put(c, ttl)
  \/ shared_mark_read_and_delete
  \/ get_fetch
  \/ get_expiry
  \/ get_count
  \/ get_copy
  \/ get_return
  \/ delete_pop
  \/ delete_key
  \/ wipe_pattern
  \/ wipe_patterns_done

WipeInit ==
  /\ wipe = IdleWipe
  /\ shared = NoShared

WipeNext ==
  \/ \E data \in Buffers, b \in BOOLEAN, passes \in 1..MaxPasses :
       secure_deallocate(data, b, passes)
  \/ wipe_pattern
  \/ wipe_patterns_done
  \/ wipe_additional

\* ===================================================================
\* Admin authentication (routes/admin_ml.py, services/auth_helpers.py)
\* ===================================================================
\* A text is a sequence of pieces: a blank, a comma, or a word without either.
Blank == " "
Comma == ","

\* str.strip()
RECURSIVE LStrip(_)
LStrip(t) == IF t # <<>> /\ Head(t) = Blank THEN LStrip(Tail(t)) ELSE t

RECURSIVE RStrip(_)
RStrip(t) ==
  IF t # <<>> /\ t[Len(t)] = Blank THEN RStrip(SubSeq(t, 1, Len(t) - 1)) ELSE t

Strip(t) == RStrip(LStrip(t))

\* str.split(","), as the sequence of its parts
RECURSIVE Split(_)
Split(t) ==
  IF \A i \in 1..Len(t) : t[i] # Comma THEN <<t>>
  ELSE LET i == CHOOSE i \in 1..Len(t) :
                  t[i] = Comma /\ \A j \in 1..(i - 1) : t[j] # Comma
       IN <<SubSeq(t, 1, i - 1)>> \o Split(SubSeq(t, i + 1, Len(t)))

\* _load_key_list: [k.strip() for k in raw.split(",") if k.strip()]
_load_key_list(raw) ==
  LET parts == Split(raw) IN
  {Strip(parts[i]) : i \in {j \in 1..Len(parts) : Strip(parts[j]) # <<>>}}

\* The values ADMIN_API_KEY can have, each with the credentials its author
\* meant to configure; unset reads as the empty text.
AdminConfigs ==
  {[raw |-> <<>>, keys |-> {}],
   [raw |-> <<Blank, Blank>>, keys |-> {}],
   [raw |-> <<Comma>>, keys |-> {}],
   [raw |-> <<"secret">>, keys |-> {<<"secret">>}],
   [raw |-> <<"secret", Comma, Blank, "other", Blank>>,
    keys |-> {<<"secret">>, <<"other">>}]}

\* The X-API-Key header of a request: missing, or its value.  The HTTP layer
\* hands over field values without surrounding blanks.
Header(t) == [value |-> t]

Headers ==
  {None, Header(<<>>), Header(<<"secret">>), Header(<<"other">>),
   Header(<<"wrong">>), Header(<<"secret", Comma, Blank, "other">>)}

AdminOps ==
  {"retrain", "set_thresholds", "read_audit", "forensic_cleanup",
   "audit_integrity"}

\* A check that lets a request through when no key is configured.
CheckFailOpen(header_value, raw) ==
  IF header_value = None \/ header_value = Header(<<>>) THEN FALSE
  ELSE IF _load_key_list(raw) = {} THEN TRUE
  ELSE \E k \in _load_key_list(raw) : Strip(header_value.value) = k

\* check_api_key; hmac.compare_digest is equality
check_api_key(header_value, raw) ==
  IF header_value = None \/ header_value = Header(<<>>) THEN FALSE
  ELSE IF _load_key_list(raw) = {} THEN FALSE
  ELSE \E k \in _load_key_list(raw) : Strip(header_value.value) = k

\* _require_admin_key: the status of the HTTPException it raises, or 200
\* when it returns.
_require_admin_key(api_key_header, raw) ==
  IF Strip(raw) = <<>> THEN 503
  ELSE IF ~check_api_key(api_key_header, raw) THEN 401
  ELSE 200

NoAdminRequest ==
  [pc |-> "idle", op |-> "none", header |-> None, status |-> 0,
   executed |-> FALSE]

\* An admin route: _require_admin_key(x_api_key) first, then the operation.
admin_request(op, header) ==
  /\ admin_done < MaxAdminOps
  /\ LET status == _require_admin_key(header, ADMIN_API_KEY.raw) IN
     /\ admin_req' = [pc |-> "done", op |-> op, header |-> header,
                      status |-> status, executed |-> status = 200]
     /\ admin_done' = IF status = 200 THEN admin_done + 1 ELSE admin_done
  /\ UNCHANGED <<now, nonAuthVars, ADMIN_API_KEY>>

AuthInit ==
  /\ ADMIN_API_KEY = [raw |-> <<>>, keys |-> {}]
  /\ admin_req = NoAdminRequest
  /\ admin_done = 0

\* A deployment with any of the configurations.
AuthInitAny ==
  /\ ADMIN_API_KEY \in AdminConfigs
  /\ admin_req = NoAdminRequest
  /\ admin_done = 0

AuthNext ==
  \E op \in AdminOps, header \in Headers : admin_request(op, header)

\* ===================================================================
\* Specifications
\* ===================================================================
Init ==
  /\ now = 0
  /\ StoreInit
  /\ PolicyInit
  /\ SendInit
  /\ KmInit
  /\ MlInit
  /\ SanInit
  /\ AuditInit
  /\ AuthInit
  /\ LockInit
  /\ WipeInit

\* The same, for a deployment that sets the policy's environment variables.
InitDeployed ==
  /\ now = 0
  /\ StoreInit
  /\ PolicyInitAny
  /\ SendInit
  /\ KmInit
  /\ MlInit
  /\ SanInit
  /\ AuditInit
  /\ AuthInit
  /\ LockInit
  /\ WipeInit

Spec == Init /\ [][StoreNext]_vars

\* The sweeper is a daemon thread of its own that loops for ever and blocks
\* only in the store's lock and in sleep: the scheduler keeps running it.
SpecFair == Init /\ [][SweepNext]_vars /\ WF_vars(Sweeper)

SpecCleanup == Init /\ [][CleanupNext]_vars

SpecPolicy == InitDeployed /\ [][PolicyNext]_vars

SpecThresholds == InitDeployed /\ [][ThresholdNext]_vars

SpecSend == InitDeployed /\ [][SendNext]_vars

SpecKM == Init /\ [][KmNext]_vars

SpecHybrid == Init /\ [][HybridNext]_vars

SpecShutdown == Init /\ [][ShutdownNext]_vars

SpecML == Init /\ [][MlNext]_vars

SpecRetrain == Init /\ [][RetrainNext]_vars
SpecSwap == Init /\ [][SwapNext]_vars

SpecSan == Init /\ [][SanNext]_vars

\* A process of the service that may have had a predecessor.
InitRestarted ==
  /\ now = 0
  /\ StoreInit
  /\ PolicyInit
  /\ SendInit
  /\ KmInit
  /\ MlInit
  /\ SanInit
  /\ AuditInitAny
  /\ AuthInit
  /\ LockInit
  /\ WipeInit

SpecVector == Init /\ [][VectorNext]_vars

SpecAudit == InitRestarted /\ [][AuditNext]_vars

\* The service under any admin credential configuration.
InitConfigured ==
  /\ now = 0
  /\ StoreInit
  /\ PolicyInit
  /\ SendInit
  /\ KmInit
  /\ MlInit
  /\ SanInit
  /\ AuditInit
  /\ AuthInitAny
  /\ LockInit
  /\ WipeInit

InitRotated ==
  /\ now = 0
  /\ StoreInit
  /\ PolicyInit
  /\ SendInit
  /\ KmInit
  /\ MlInit
  /\ SanInit
  /\ AuditInitRotated
  /\ AuthInit
  /\ LockInit
  /\ WipeInit

SpecRotate == InitRotated /\ [][AuditNext]_vars

SpecTamper == InitRestarted /\ [][TamperNext]_vars

SpecAuth == InitConfigured /\ [][AuthNext]_vars

SpecLocks == Init /\ [][LockNext]_vars

SpecWipe == Init /\ [][WipeNext]_vars

\* get against a concurrent secure deletion of the entry it reads.
SpecRead == Init /\ [][ReadNext]_vars

\* ------------------------------------------------------------ store claims

\* C1: after put(token, c, ttl) at time T with no later put or delete on the
\* token, a get at T+t returns c when t < ttl and absent when t >= ttl.
C1_GetFollowsTtl ==
  (last_op.op = "get" /\ hist[last_op.token].put # None
     /\ ~hist[last_op.token].deleted)
  => LET p == hist[last_op.token].put IN
     IF now < p.until
       THEN last_op.val # None /\ last_op.val.ciphertext = p.ciphertext
       ELSE last_op.val = None

\* C2: after mark_read_and_delete(token) returned true, a get of the token
\* with no put in between yields absent.
C2_GetAfterMarkAbsent ==
  (last_op.op = "get" /\ hist[last_op.token].deleted) => last_op.val = None

\* C14: a put on a token that holds an entry leaves one entry for the token,
\* and the ciphertext buffer of the entry it replaces goes through the wipe
\* passes of secure deletion: no buffer is released without them.
C14_ReplacedIsWiped ==
  \A t \in Tokens : ~hist[t].unwiped

\* C15: ttl_remaining returns max(0, expire_at - now) whenever the token has
\* an entry, and absent only when it has none.
C15_TtlRemainingOfPresent ==
  last_op.op = "ttl_remaining" =>
    LET entry == store[last_op.token] IN
    IF entry = None
    THEN last_op.val = None
    ELSE last_op.val
           = [n |-> IF entry.expire_at > now THEN entry.expire_at - now ELSE 0]

\* C16: force_secure_cleanup returns the number of entries it removed from
\* the map; when no put ran during the call, every entry that was present at
\* the call is gone and the map and the deletion queue are empty on return.
C16_ForceCleanupCount ==
  last_op.op = "force_secure_cleanup" =>
    /\ last_op.val.n = last_op.val.removed
    /\ ~last_op.val.raced =>
         /\ \A t \in Tokens : store[t] = None
         /\ deletion_queue = <<>>

\* C17: under a fair sweeper an entry whose expire_at has been reached leaves
\* the map even if nobody asks for it again, and a token in the deletion queue
\* is removed from the map.
C17_SweeperRemoves ==
  \A t \in Tokens :
    /\ (store[t] # None /\ store[t].expire_at <= now)
         ~> (store[t] = None \/ store[t].expire_at > now)
    /\ (\E i \in 1..Len(deletion_queue) : deletion_queue[i] = t)
         ~> (store[t] = None)

\* An entry nobody marked was put, has expired, and the sweeper has taken it
\* out of the map with its queue drained.
C17_Witness ==
  \E t \in Tokens :
    /\ hist[t].put # None /\ ~hist[t].deleted
    /\ hist[t].put.until <= now
    /\ store[t] = None
    /\ deletion_queue = <<>>
    /\ sw_pc = "delete" /\ sw_tokens = <<>>

\* C38: an entry leaves the map only because it was itself marked read or
\* has reached its own expiry: a deletion queued for a token never removes
\* the entry a later put stored under that token while its TTL runs.
C38_DeletionSparesLaterPut ==
  [][\A t \in Tokens :
       (store[t] # None /\ store'[t] = None) =>
          \/ hist[t].deleted
          \/ store[t].expire_at <= now
    ]_vars

\* ------------------------------------------------------------ policy claims
\* C4: with the thresholds as they stood when the call began, unchanged while
\* it compared and with allow >= reauth, the raw action of lines 147-156 is
\* allow for risk >= allow, require_reauth for reauth <= risk < allow and block
\* for risk < reauth: a function of the risk and the two thresholds alone, so
\* equal inputs under an equal configuration give equal raw actions.
C4_RawActionTable ==
  \A w \in Workers :
    LET c == pol[w] IN
    (c.pc \in {"flag", "quota", "enforce", "ret"} /\ c.cfg_stable /\ c.a0 >= c.r0)
      => /\ (c.risk_score >= c.a0) => c.raw0 = "allow"
         /\ (c.r0 <= c.risk_score /\ c.risk_score < c.a0) => c.raw0 = "require_reauth"
         /\ (c.risk_score < c.r0) => c.raw0 = "block"

C4_Witness ==
  \E w \in Workers :
    /\ pol[w].pc = "flag" /\ pol[w].cfg_stable
    /\ pol[w].a0 = 40 /\ pol[w].r0 = 40 /\ pol[w].risk_score = 40
    /\ pol[w].raw0 = "allow"

\* Downgrades of key k whose whole call, from its start to the moment the
\* ledger answered, lies in the interval [s, s + window].
DowngradesIn(k, s) ==
  {i \in 1..Len(grants) :
     /\ grants[i].key = k
     /\ grants[i].from >= s
     /\ grants[i].to <= s + EXCEPTION_WINDOW_SEC}

C6_EnforcedActionPolicy ==
  \A w \in Workers :
    LET c == pol[w] IN
    c.pc = "ret" =>
      /\ (~c.enforce) <=> (SHADOW_MODE \/ ~_should_enforce_canary(c.token))
      /\ ~c.enforce => (c.action = "allow" /\ c.policy = c.raw_action)
      /\ c.enforce => (c.action = c.policy /\ c.policy = c.raw_action)
      /\ (c.risk_score = 10 /\ ~c.exception_flag /\ SHADOW_MODE)
           => <<c.action, c.policy, c.enforce>> = <<"allow", "block", FALSE>>
      /\ (c.risk_score = 10 /\ ~c.exception_flag /\ ~SHADOW_MODE
            /\ CANARY_FRACTION = 256)
           => <<c.action, c.policy, c.enforce>> = <<"block", "block", TRUE>>

C6_Witness ==
  \E w \in Workers :
    /\ pol[w].pc = "ret" /\ ~SHADOW_MODE /\ ~pol[w].enforce
    /\ pol[w].policy = "pending_approval" /\ pol[w].action = "allow"

\* C13: with enforcement on, two decide_action calls on the same token see
\* the same canary outcome whatever happened between them; at a fraction of
\* 1.0 or more every token is enforced, at 0.0 or less none is.
C13_CanaryDeterministic ==
  /\ \A v, w \in Workers :
       (pol[v].pc = "ret" /\ pol[w].pc = "ret" /\ ~SHADOW_MODE
          /\ pol[v].token = pol[w].token)
         => pol[v].enforce = pol[w].enforce
  /\ \A w \in Workers :
       (pol[w].pc = "ret" /\ ~SHADOW_MODE) =>
         /\ CANARY_FRACTION >= 256 => pol[w].enforce
         /\ CANARY_FRACTION <= 0 => ~pol[w].enforce

\* Two calls on one token, the second deciding a tick later under a changed
\* ledger, at a canary of one half.
C13_Witness ==
  \E v, w \in Workers :
    /\ v # w /\ pol[v].pc = "ret" /\ pol[w].pc = "ret"
    /\ ~SHADOW_MODE /\ CANARY_FRACTION = 128
    /\ pol[v].token = pol[w].token
    /\ pol[v].t_now < pol[w].t_now
    /\ pol[v].enforce /\ pol[w].enforce
    /\ exception_events # [k \in QuotaKeys |-> <<>>]

\* Records of the audit log that belong to call number id.
RecordsOf(id) == {i \in 1..Len(audit_log) : audit_log[i].call = id}

\* C7 as stated: when decide_action is about to return, the audit log holds
\* exactly one record of that call.
C7_ExactlyOneRecord ==
  \A w \in Workers :
    pol[w].pc = "ret" => Cardinality(RecordsOf(pol[w].call)) = 1

\* C7 amended: every call of decide_action enters record_audit exactly once
\* before it returns; the log then holds one record of the call when the write
\* went through and none when it failed, never more than one, and none before
\* record_audit was entered.
C7_OneAuditAttempt ==
  /\ \A w \in Workers :
       LET c == pol[w] IN
       /\ c.pc = "ret" =>
            /\ c.attempts = 1
            /\ Cardinality(RecordsOf(c.call)) = IF c.written THEN 1 ELSE 0
       /\ c.pc \in {"cmp_allow", "cmp_reauth", "flag", "quota", "enforce"} =>
            (c.attempts = 0 /\ RecordsOf(c.call) = {})
  /\ \A id \in 1..calls : Cardinality(RecordsOf(id)) <= 1

C7_Witness ==
  \E w \in Workers :
    /\ pol[w].pc = "ret" /\ pol[w].attempts = 1 /\ ~pol[w].written
    /\ RecordsOf(pol[w].call) = {}
    /\ Len(audit_log) = 1

\* C12: once a set_thresholds call has returned, the allow threshold is at
\* least the reauth threshold.
C12_AllowAtLeastReauth ==
  adm.pc = "idle" => THRESH_ALLOW >= THRESH_REAUTH

\* C31: a decide_action call that runs concurrently with set_thresholds
\* evaluates the risk against both old or both new thresholds: its raw action
\* is the one that the pair in force before some overlapping set_thresholds
\* call, or the pair that call left, gives for its risk; a call that starts
\* after set_thresholds returned has the new pair alone to go by.
C31_ThresholdsReadAsPair ==
  \A w \in Workers :
    LET c == pol[w] IN
    c.pc = "flag" =>
      c.raw0 \in c.seen

\* C34: in every state of the exception ledger, every timestamp stored for
\* every key lies within the current exception window: none is older than
\* now - EXCEPTION_WINDOW_SEC and none is later than now.
C34_LedgerWithinWindow ==
  \A k \in QuotaKeys :
    \A i \in 1..Len(exception_events[k]) :
      /\ now - EXCEPTION_WINDOW_SEC <= exception_events[k][i]
      /\ exception_events[k][i] <= now

\* The timestamps of a ledger entry that the window of a check at time t keeps.
Retained(events, t) ==
  {i \in 1..Len(events) : events[i] >= t - EXCEPTION_WINDOW_SEC}

\* C26: the step of decide_action that handles a set exception flag turns a
\* raw block into pending_approval and keeps any other raw action when the
\* key is within its quota, recording exactly one timestamp for the key; it
\* gives block and records none when the quota is used up; the step of a call
\* whose flag is not set leaves the ledger as it was and the raw action as
\* the thresholds gave it.
C26_ExceptionTable ==
  [][\A w \in Workers :
       LET c == pol[w]
           d == pol'[w]
           key == QuotaKey(c)
           old == exception_events[key]
           new == exception_events'[key]
           within == Cardinality(Retained(old, c.t_now)) < EXCEPTION_QUOTA
       IN /\ (c.pc = "quota" /\ d.pc = "enforce") =>
               /\ c.exception_flag
               /\ (within /\ c.raw0 = "block") => d.raw_action = "pending_approval"
               /\ (within /\ c.raw0 # "block") => d.raw_action = c.raw0
               /\ ~within => d.raw_action = "block"
               /\ within =>
                    /\ Len(new) = Cardinality(Retained(old, c.t_now)) + 1
                    /\ new[Len(new)] = c.t_now
               /\ ~within =>
                    /\ Len(new) = Cardinality(Retained(old, c.t_now))
                    /\ \A i \in 1..Len(new) : \E j \in 1..Len(old) : new[i] = old[j]
               /\ \A k \in QuotaKeys \ {key} :
                    exception_events'[k] = exception_events[k]
          /\ (c.pc = "flag" /\ d.pc = "enforce") =>
               /\ ~c.exception_flag
               /\ exception_events' = exception_events
               /\ d.raw_action = c.raw0
    ]_vars

\* A flagged call was downgraded within the quota, and a later flagged call
\* on the same key, raw block again, was blocked for the quota; a call
\* without the flag has kept its raw block.
C26_Witness ==
  /\ Len(grants) = 1
  /\ \E w \in Workers :
       /\ pol[w].pc = "enforce" /\ pol[w].exception_flag
       /\ pol[w].raw0 = "block" /\ pol[w].raw_action = "block"
       /\ QuotaKey(pol[w]) = grants[1].key
       /\ Len(exception_events[QuotaKey(pol[w])]) = EXCEPTION_QUOTA

\* ------------------------------------------------------------ route claims
\* C3: a submission is answered "stored" if and only if store.put ran for it;
\* nothing is stored when the decision's action is require_reauth, block or
\* pending_approval; the ciphertext is stored whenever the action is allow,
\* the non-enforced shadow/canary decisions included.
C3_StoredIffPut ==
  resp.call # 0 =>
    /\ (resp.status = "stored") <=> resp.put
    /\ resp.action \in {"require_reauth", "block", "pending_approval"} => ~resp.put
    /\ resp.action = "allow" => resp.put

\* ------------------------------------------------------------ key manager claims
\* C8: whatever the interleaving of the rotation loop with the readers, the
\* key_id, the classical public key and the KEM public key of every snapshot
\* export_public_keys returns are those of one bundle the manager completed.
C8_SnapshotOneBundle ==
  \A r \in Readers :
    LET snap == rd[r].snapshot IN
    snap # None =>
      \E b \in bundles :
        /\ snap.key_id = b.key_id
        /\ snap.x25519_pub_b64 = _b64(b.x25519_pub)
        /\ snap.pqc_pub_b64 = IF b.pqc_pub # None THEN _b64(b.pqc_pub) ELSE None

C8_Witness ==
  \E r \in Readers :
    /\ rd[r].snapshot # None
    /\ rd[r].snapshot.x25519_pub_b64 = _b64(public_key(FreshPriv(1)))
    /\ rot.pc = "key_id"
    /\ \E q \in Readers : rd[q].pc = "idle" /\ q # r /\ rd[q].snapshot # None
                          /\ rd[q].snapshot # rd[r].snapshot

\* C27: when a hybrid request responds, every use it made of the server keys
\* refers to one bundle: the private key of its ECDH derivation, the key_id
\* in the associated data, the key_id of the response and the server public
\* key of the response.
C27_HybridOneBundle ==
  hy.pc = "done" =>
    \E b \in bundles :
      /\ b.x25519_pub = public_key(hy.priv)
      /\ hy.resp_key_id = b.key_id
      /\ hy.route = "send" => hy.aad_key_id = b.key_id
      /\ hy.route = "hybrid_init" => hy.resp_pub = _b64(b.x25519_pub)

\* C40: once shutdown has set the flag, the rotation loop replaces no key:
\* key_id, the classical key pair and the KEM key pair stay as they are.
C40_NoRotationAfterShutdown ==
  [][km._shutdown =>
       /\ km'.key_id = km.key_id
       /\ km'.x25519_priv = km.x25519_priv
       /\ km'.x25519_pub = km.x25519_pub
       /\ km'.pqc_priv = km.pqc_priv
       /\ km'.pqc_pub = km.pqc_pub
    ]_vars

\* ------------------------------------------------------------ scorer claims
\* C9: for every vector and every adapter state (untrained, trained, the model
\* raising), score returns an integer in 0..100; the step in which it returns
\* leaves the buffer, the model, the scaler and the trained flag as they were;
\* and it returns what score returned for the same vector earlier, unless a
\* retrain installed a model in between.
C9_ScorePure ==
  [][last_score' # None =>
       /\ last_score'.result \in 0..100
       /\ ml' = ml
       /\ memo[last_score'.vector] # None =>
            last_score'.result = memo[last_score'.vector].n]_vars

C9_Witness ==
  /\ last_score # None
  /\ ml._trained /\ ml._model # None /\ Len(ml._buffer) = MAX_BUFFER
  /\ last_score.vector = Burst /\ last_score.result = 33
  /\ memo[Quiet] = [n |-> 70]
  /\ memo[NotNumbers] = [n |-> 0] /\ memo[Empty] = [n |-> 40]

\* C20: a force_retrain call that finds fewer than MIN_TRAIN_SAMPLES vectors
\* in the buffer returns False and leaves model, scaler, trained flag, buffer
\* and the persisted snapshot as they were.
C20_ForceRetrainBelowMinimum ==
  [][(forcer'.n = forcer.n + 1 /\ Len(ml._buffer) < MIN_TRAIN_SAMPLES)
       => /\ forcer'.out = [b |-> FALSE]
          /\ forcer'.pc = "idle"
          /\ ml' = ml
          /\ persisted' = persisted]_vars

\* force_retrain has returned False on a buffer of one vector.
C20_Witness ==
  /\ forcer.n = 1
  /\ forcer.out = [b |-> FALSE]
  /\ forcer.have = 1
  /\ Len(ml._buffer) = 1
  /\ ~ml._trained /\ persisted = None

\* C29: the persisted snapshot always holds a model and a scaler produced by
\* one single retrain, also when the periodic loop and force_retrain run
\* concurrently.
C29_PersistedIsOnePair ==
  persisted # None => persisted.model.fit = persisted.scaler.fit

\* C30: retraining is copy-then-swap. While a fit runs, the training data
\* are the copy taken under the lock, whatever is observed meanwhile; model,
\* scaler and trained flag are installed in one critical section, so in
\* every state a score can read, the three are all present or all absent and
\* model and scaler come from the same retrain.
C30_CopyThenSwap ==
  [][/\ ml'._trained <=> ml'._model # None
     /\ ml'._model # None <=> ml'._scaler # None
     /\ ml'._model # None => ml'._model.fit = ml'._scaler.fit
     /\ (trainer.pc = "fit" /\ trainer'.pc = "fit") => trainer'.X = trainer.X
     /\ (forcer.pc = "fit" /\ forcer'.pc = "fit") => forcer'.X = forcer.X
    ]_vars

\* During a fit of the periodic loop, a forced retrain installed its pair,
\* an observation entered the buffer and a score returned: none waited for
\* the fit.
C30_Witness ==
  /\ trainer.pc = "fit"
  /\ ml._trained /\ ml._model.fit = MaxRetrains + 1
  /\ ml._buffer # trainer.X
  /\ last_score # None

\* The last n elements of a sequence.
LastN(q, n) == SubSeq(q, Len(q) - n + 1, Len(q))

\* C21: the rolling buffer never holds more than MAX_BUFFER vectors, and it
\* holds exactly the most recent min(n, MAX_BUFFER) of the n vectors
\* add_observation has accepted, in the order they arrived.
C21_BufferIsMostRecent ==
  /\ Len(ml._buffer) <= MAX_BUFFER
  /\ LET n == Len(accepted)
         k == IF n < MAX_BUFFER THEN n ELSE MAX_BUFFER
     IN ml._buffer = LastN(accepted, k)

\* More vectors were accepted than the buffer holds, and the two oldest of
\* them differed.
C21_Witness ==
  /\ Len(accepted) > MAX_BUFFER
  /\ accepted[1] # accepted[2]
  /\ Len(ml._buffer) = MAX_BUFFER

\* C22: every vector in the rolling buffer has arity D and only finite
\* values.
C22_BufferVectorsValid ==
  \A i \in 1..Len(ml._buffer) :
     Len(ml._buffer[i].x) = D /\ Finite(ml._buffer[i].x)

\* ------------------------------------------------------------ sanitizer claims
\* C10: sanitizing the sanitized form of a metadata map returns exactly that
\* sanitized form.
C10_SanitizeIdempotent ==
  san.pc = "twice" => san.second = san.first

\* C18: whatever metadata fields a valid submission leaves out, the handler
\* builds the vector [padded_size, interval, dest_count, device_change_flag]
\* with 0 for an absent field and 1 for dest_count, and goes on to scoring
\* and the decision; it does not end in an internal error.
C18_VectorAlwaysBuilt ==
  build.pc = "done" =>
    /\ build.outcome = "scoring"
    /\ Len(build.vector) = 4
    /\ IsNone(build.metadata["padded_size"]) => build.vector[1] = 0
    /\ IsNone(build.metadata["interval"]) => build.vector[2] = 0
    /\ build.vector[3] = 1000
    /\ IsNone(build.metadata["new_device"]) => build.vector[4] = 0

\* C28: exception handling is applied to a /send submission only if its
\* metadata set exception_flag to true: while the handler decides on a
\* submission whose flag is false, no step changes the exception ledger,
\* decide_action does not see the flag as set, and the raw action stays
\* what the thresholds gave.
C28_ExceptionOnlyIfFlagged ==
  [][(build.pc = "deciding" /\ build.metadata["exception_flag"] # BoolV(TRUE)) =>
       /\ ~pol[Handler].exception_flag
       /\ exception_events' = exception_events
       /\ pol'[Handler].raw_action = pol'[Handler].raw0
    ]_vars

\* C25: obfuscating a boolean returns that boolean: a field sanitize_metadata
\* obfuscates (any kept field that is not of the low class) whose value is
\* true or false has the identical boolean as its sanitized value.
C25_BooleanUnchanged ==
  san.pc # "idle" =>
    \A f \in DOMAIN san.m \cap DOMAIN san.first :
       (~IsLow(f) /\ IsBool(san.m[f])) => san.first[f] = san.m[f]

PersistedFields(line) ==
  UNION {DOMAIN line[j].kv : j \in {i \in 1..Len(line) : "kv" \in DOMAIN line[i]}}

\* The keys the forensic audit log's whitelist names, besides ts, event_id
\* and event_type: its safe fields and opaque hashes.
Whitelisted(key) == key \in safe_fields \/ endswith(key, "_hash")

\* C23: every record an audit sink persisted holds only keys of its
\* whitelist; every other key the caller provided was dropped before the
\* write.
C23_OnlyWhitelistedKeys ==
  /\ \A i \in 1..Len(audit_log) : DOMAIN audit_log[i].line \subseteq allowed_keys
  /\ \A i \in 1..Len(FileLines) :
       \A k \in PersistedFields(FileLines[i]) : Whitelisted(k)

\* A line is valid when the checksum after its last bar is the checksum of
\* the text before it.
ChecksumMatches(line) ==
  /\ HasBar(line)
  /\ rsplit(line).checksum = _calculate_checksum(ProcessKey, rsplit(line).json_data)

\* C35: with tamper detection enabled, verify_log_integrity counts a line as
\* valid only if the checksum after its last bar equals the checksum
\* recomputed over the preceding text, and returns verified only if every
\* line is valid; a line that was altered or that carries no matching
\* checksum makes the status tampered.
C35_ValidOnlyByChecksum ==
  (integrity # None /\ integrity.status # "error") =>
    /\ integrity.valid_entries
         = Cardinality({i \in 1..Len(FileLines) : ChecksumMatches(FileLines[i])})
    /\ integrity.status = "verified" =>
         \A i \in 1..Len(FileLines) : ChecksumMatches(FileLines[i])
    /\ audit_stats.altered > 0 => integrity.status = "tampered"

\* C36: on every audit write a rotation happens exactly when the bytes
\* written to the active file since the last rotation exceed max_size; the
\* rotation moves the active file to .1 and every .i to .i+1, so at most
\* AUDIT_LOG_ROTATION_COUNT rotated files exist, newest first, and only the
\* file that was the oldest of AUDIT_LOG_ROTATION_COUNT is discarded.
C36_RotationBySize ==
  [][audit_stats'.appended = audit_stats.appended + 1 =>
       LET rotation == audit_stats'.rotations = audit_stats.rotations + 1
           written == IF rotation THEN rotated'[1].bytes ELSE Bytes(audit_file'.lines)
       IN /\ rotation <=> written > AUDIT_LOG_MAX_SIZE
          /\ rotation =>
               /\ ~audit_file'.exists
               /\ rotated'[1].exists /\ rotated'[1].gen = audit_stats'.rotations
               /\ \A i \in Suffixes \ {1} : rotated'[i] = rotated[i - 1]
               /\ Cardinality({i \in Suffixes : rotated'[i].exists})
                    <= AUDIT_LOG_ROTATION_COUNT
               /\ \A i, j \in Suffixes :
                    (i < j /\ rotated'[j].exists) =>
                       (rotated'[i].exists /\ rotated'[i].gen > rotated'[j].gen)
          /\ ~rotation => rotated' = rotated
    ]_vars

\* C37: the forensic audit log never persists a raw sensitive identifier:
\* no record in the file holds a value under the key token, user_id,
\* client_ip or device_id; what it holds of such a value is the opaque hash
\* under the key with _hash appended.
C37_NoRawIdentifier ==
  \A i \in 1..Len(FileLines) :
    /\ PersistedFields(FileLines[i]) \cap HashedFields = {}
    /\ \A j \in 1..Len(FileLines[i]) :
         "kv" \in DOMAIN FileLines[i][j] =>
           \A k \in DOMAIN FileLines[i][j].kv :
             (\E h \in HashedFields : k = h \o <<"_hash">>) =>
                "text" \notin DOMAIN FileLines[i][j].kv[k]

\* ------------------------------------------------------------ lock claims
\* Thread t is at an acquire that cannot return.
Blocked(t) ==
  /\ NextStep(t) # None
  /\ NextStep(t).do = "acquire"
  /\ ~CanAcquire(t, NextStep(t).lock)

\* C32: every read and every mutation of the store's keyed map and of its
\* deletion queue, by request operations, by the sweeper and by
\* force_secure_cleanup, is performed while the thread holds the store's
\* mutex.
C32_StoreAccessUnderMutex ==
  \A t \in CoreThreads :
    (NextStep(t) # None /\ NextStep(t).do = "touch") => lock_owner["store"] = t

\* C24: no core operation blocks forever on another: in no state is there
\* a set of threads each of which waits for a lock that a thread of the set
\* holds, whatever the interleaving of the request workers with the sweeper,
\* the retrain loop and the rotation loop.
C24_NoDeadlock ==
  \A S \in SUBSET CoreThreads :
     S # {} => \E t \in S : ~(Blocked(t) /\ lock_owner[NextStep(t).lock] \in S)

\* A worker inside the leak detector waits for the scorer's lock while the
\* retrain loop holds it, and the other worker waits for the detector.
C24_Witness ==
  /\ running["w1"].op = "detect_metadata_leaks" /\ Blocked("w1")
  /\ lock_owner["detector"] = "w1" /\ lock_owner["ml"] = "retrainer"
  /\ running["w2"].op = "detect_metadata_leaks" /\ Blocked("w2")

\* ------------------------------------------------ secure deletion claims
\* The kinds of fill that N passes are to apply: zeros, ones, random, then
\* further random ones.
PassOrder(n) == [k \in 1..n |-> IF k = 1 THEN "zeros" ELSE IF k = 2 THEN "ones" ELSE "random"]

\* C33: for every configured pass count N >= 1, secure deletion of a buffer
\* performs exactly N overwrite passes in the order all-0x00, all-0xFF,
\* random, then further random passes, and the last pass applied is a random
\* fill.
C33_LastPassRandom ==
  (wipe.pc = "done" /\ wipe.is_bytearray) =>
    /\ wipe.applied = PassOrder(wipe.passes)
    /\ wipe.applied[Len(wipe.applied)] = "random"

\* C39: a get that returns an entry returns the bytes given to the put that
\* created the entry, never the content a wipe pass has written into the
\* buffer.
C39_GetReturnsPutBytes ==
  (shared.out # None /\ shared.out # KeyError) =>
     shared.out.ciphertext = shared.given

\* ------------------------------------------------------------ admin claims
\* C19: an admin operation is executed only for a request whose header is
\* one of the configured credentials, and with the configuration absent or
\* empty every admin request is answered 503 and executes nothing.
C19_AdminFailsClosed ==
  admin_req.pc = "done" =>
    /\ admin_req.executed =>
         /\ admin_req.header # None
         /\ admin_req.header.value \in ADMIN_API_KEY.keys
    /\ Strip(ADMIN_API_KEY.raw) = <<>> =>
         (admin_req.status = 503 /\ ~admin_req.executed)
    /\ admin_req.status # 200 => ~admin_req.executed

\* The second credential of a two-key configuration was presented and a
\* forensic cleanup was executed.
C19_Witness ==
  /\ admin_req.pc = "done"
  /\ admin_req.executed
  /\ admin_req.op = "forensic_cleanup"
  /\ admin_req.header = Header(<<"other">>)
  /\ Cardinality(ADMIN_API_KEY.keys) = 2


====
